---- MODULE Spec2Model ----
(***************************************************************************)
(* State-machine model of the video splitter front end:                    *)
(*   App (App.tsx), the useVideoSplit hook, the usePreviewSource hook,     *)
(*   the VideoPlayer and the TimeRangeEditor components.                   *)
(* The external media tool is reached through invoke(); its answers are    *)
(* environment actions (Resolve / Reject).                                 *)
(***************************************************************************)
EXTENDS Integers, Sequences, FiniteSets, TLC

(* ---------- nullable values: null is <<>>, a value v is <<v>> ---------- *)
Null == <<>>
Some(v) == <<v>>
IsNull(x) == x = <<>>
NotNull(x) == x # <<>>
Val(x) == x[1]

(* ---------- bounds of the model ---------- *)
\* at most this many get_video_info requests in flight at once
MaxMetaReqs == 2
\* at most this many clicks on a retry button
MaxRetries == 1
\* at most this many ranges are ever added
MaxRangeIds == 2
\* at most this many split-progress events emitted and not yet delivered
MaxProgressEvents == 1

(* ---------- paths: a path is a sequence of characters ---------- *)
\* PathA: a long, large mp4; PathB: a short, small mkv; PathC: a short, small mp4
PathA == <<"/", "a", "/", "v", ".", "m", "p", "4">>
PathB == <<"/", "b", "/", "w", ".", "M", "K", "V">>
PathC == <<"/", "a", "/", "s", ".", "m", "p", "4">>
Paths == {PathA, PathB}
DirC == <<"/", "c">>
Dirs == {DirC}

\* String.prototype.lastIndexOf(ch), 0-based, -1 when absent
lastIndexOf(s, ch) ==
    LET hits == {i \in 1..Len(s) : s[i] = ch}
    IN IF hits = {} THEN -1 ELSE (CHOOSE i \in hits : \A j \in hits : j <= i) - 1

\* String.prototype.substring(0, n); a negative n counts as 0
substring0(s, n) == IF n <= 0 THEN <<>> ELSE SubSeq(s, 1, n)

\* what the external tool answers for a file: its duration in seconds
DurationOf(p) == IF p = PathA THEN 1203 ELSE 3

\* the size in bytes of a file on disk
FileSize(p) == IF p = PathA THEN 300 * 1024 * 1024 ELSE 1024 * 1024

Min(a, b) == IF a <= b THEN a ELSE b
Max(a, b) == IF a >= b THEN a ELSE b

ErrMeta == "ffprobe failed"
ErrSplit == "ffmpeg failed"
OutFiles == <<"part_000.mp4">>

VARIABLES
    selectedFile,     \* App: string | null
    segmentDuration,  \* App: seconds
    outputDir,        \* App: string ('' when unset)
    showPreview,      \* App: boolean
    splitMode,        \* App: 'interval' | 'ranges'
    timeRanges,       \* App: TimeRange[]
    videoInfo,        \* useVideoSplit: VideoInfo | null
    isLoading,        \* useVideoSplit
    isProcessing,     \* useVideoSplit
    progress,         \* useVideoSplit: SplitProgress | null
    result,           \* useVideoSplit: SplitResult | null
    error,            \* useVideoSplit: string | null
    dialogOpen,       \* FileDropZone: the file dialog awaited in handleClick
    metaReqs,         \* get_video_info invocations in flight (sequence of paths)
    splitReqs,        \* split invocations in flight (sequence of payloads)
    pv,               \* per preview component: its state, usePreviewSource, <video>
    platform,         \* how the webview plays HLS: 'hlsjs' | 'native' | 'none'
    nextRangeId,      \* the next fresh range id (crypto.randomUUID())
    progressEvents,   \* split-progress events emitted by the backend, in flight
    durationUnit,     \* App: 'seconds' | 'minutes', the unit DurationInput shows
    last              \* the step just taken: [op, arg, c]

appVars == <<selectedFile, segmentDuration, outputDir, showPreview, splitMode,
             timeRanges, videoInfo, isLoading, isProcessing, progress, result,
             error, dialogOpen, metaReqs, splitReqs>>
vars == <<appVars, pv, platform, nextRangeId, progressEvents, durationUnit, last>>

\* remove the i-th element of a sequence
RemoveAt(s, i) == SubSeq(s, 1, i - 1) \o SubSeq(s, i + 1, Len(s))


(* ---------- usePreviewSource + the two preview components ---------- *)
\* "player" is VideoPlayer as App renders it, "editor" is TimeRangeEditor
Comps == {"player", "editor"}

\* VideoPlayer.tsx constants
HLS_MIN_SIZE == 200 * 1024 * 1024
\* TimeRangeEditor.tsx constants (the player's are the same numbers)
HLS_MIN_SIZE_DEFAULT == 200 * 1024 * 1024
HLS_SEGMENT_SECONDS == 2
HLS_WINDOW_SECONDS == 10 * 60
HLS_WINDOW_PADDING == 0

ErrPrepare == "ffmpeg hls failed"
MsgPrepareFailed == "HLS prepare failed"
MsgHlsUnsupported == "HLS unsupported"
MsgHlsFatal == "HLS playback failed"
MsgMediaError == "video load failed"
MsgPlayFailed == "play failed"

\* String.prototype.toLowerCase on the characters paths are made of
toLowerCase(ch) ==
    CASE ch = "M" -> "m" [] ch = "K" -> "k" [] ch = "V" -> "v" [] ch = "P" -> "p"
      [] OTHER -> ch

\* filePath.split('.').pop()?.toLowerCase()
extOf(filePath) ==
    LET i == lastIndexOf(filePath, ".")
        tail == SubSeq(filePath, i + 2, Len(filePath))
    IN [k \in 1..Len(tail) |-> toLowerCase(tail[k])]

\* TimeRangeEditor: forceHls
forceHls(filePath) ==
    LET ext == extOf(filePath)
    IN IF ext = <<>> THEN FALSE
       ELSE ext \notin {<<"m", "p", "4">>, <<"m", "4", "v">>, <<"m", "o", "v">>}

\* hlsMinSize if the editor never forced the playlist
hlsMinSize_NeverForces(c, filePath) == HLS_MIN_SIZE_DEFAULT

\* the minSizeBytes option a component hands to usePreviewSource
hlsMinSize(c, filePath) ==
    IF c = "player" THEN HLS_MIN_SIZE
    ELSE IF forceHls(filePath) THEN 0 ELSE HLS_MIN_SIZE_DEFAULT

\* the arguments of prepare_hls_source_command for the current render
PrepareArgs(c, s) ==
    [inputPath |-> s.filePath,
     minSizeBytes |-> hlsMinSize(c, s.filePath),
     segmentSeconds |-> HLS_SEGMENT_SECONDS,
     startSeconds |-> s.windowStart,
     windowSeconds |-> HLS_WINDOW_SECONDS]

\* the <video> element: nothing loaded
EmptyMedia == [phase |-> "empty", src |-> Null, time |-> 0, paused |-> TRUE]

\* the <video> element right after a source was assigned / load() was called
LoadMedia(src) == [phase |-> "assigned", src |-> src, time |-> 0, paused |-> TRUE]

\* useState initial values of a component and of its usePreviewSource
InitComp ==
    [mounted |-> FALSE, filePath |-> <<>>,
     source |-> Null, isPreparing |-> FALSE, prepareError |-> Null,
     inflight |-> {}, issued |-> <<>>,
     isPlaying |-> FALSE, currentTime |-> 0, isLoading |-> TRUE,
     error |-> Null, hlsError |-> Null, retryToken |-> 0, windowStart |-> 0,
     pendingSeek |-> Null, queuedSeek |-> Null, autoPlayAfterSeek |-> FALSE,
     isScrubbing |-> FALSE, pendingStart |-> Null, editingRangeId |-> Null,
     activeRangeId |-> Null, hlsStartOffset |-> 0,
     showBatchInput |-> FALSE, batchText |-> <<>>, batchError |-> Null,
     batchOptions |-> [merge |-> TRUE, clamp |-> TRUE, ignoreInvalid |-> TRUE],
     hlsAttached |-> FALSE, media |-> EmptyMedia]

\* the effect cleanup of usePreviewSource: cancelled = true
CancelAll(inflight) == {[r EXCEPT !.cancelled = TRUE] : r \in inflight}

\* JavaScript truthiness of a string | null
Truthy(x) == NotNull(x) /\ Val(x) # ""

\* usePreviewSource effect, deps [filePath, minSizeBytes, segmentSeconds,
\* startSeconds, windowSeconds, requestKey]; `a` accumulates the state updates
usePreviewSourceEffect(c, old, new, a) ==
    IF old.mounted /\ old.filePath = new.filePath /\ old.windowStart = new.windowStart
       /\ old.retryToken = new.retryToken
    THEN a
    ELSE IF new.filePath = <<>>
    THEN [a EXCEPT !.inflight = CancelAll(@), !.source = Null,
                   !.isPreparing = FALSE, !.prepareError = Null]
    ELSE [a EXCEPT !.inflight = CancelAll(@) \cup
                                  {[req |-> PrepareArgs(c, new), cancelled |-> FALSE]},
                   !.issued = Append(@, PrepareArgs(c, new)),
                   !.source = Null, !.prepareError = Null, !.isPreparing = TRUE]

\* effect [filePath]: reset of the per-file player state
resetOnFilePath(c, old, new, a) ==
    IF old.mounted /\ old.filePath = new.filePath THEN a
    ELSE IF c = "player"
    THEN [a EXCEPT !.windowStart = 0, !.pendingSeek = Null, !.queuedSeek = Null,
                   !.autoPlayAfterSeek = FALSE, !.isScrubbing = FALSE,
                   !.currentTime = 0]
    ELSE [a EXCEPT !.windowStart = 0, !.pendingSeek = Null, !.queuedSeek = Null,
                   !.autoPlayAfterSeek = FALSE, !.isScrubbing = FALSE,
                   !.activeRangeId = Null, !.hlsStartOffset = 0, !.currentTime = 0]

\* effect [source?.kind, source?.path]: setError(null); setHlsError(null)
clearErrorsOnSource(old, new, a) ==
    IF old.mounted /\ old.source = new.source THEN a
    ELSE [a EXCEPT !.error = Null, !.hlsError = Null]

\* the effect without its setIsLoading(false)
showPrepareError_KeepsLoading(old, new, a) ==
    IF old.mounted /\ old.prepareError = new.prepareError /\ old.source = new.source
    THEN a
    ELSE IF IsNull(new.source) /\ Truthy(new.prepareError)
    THEN [a EXCEPT !.hlsError = Some(MsgPrepareFailed)]
    ELSE a

\* effect [prepareError, source]: show the preparation failure
showPrepareError(old, new, a) ==
    IF old.mounted /\ old.prepareError = new.prepareError /\ old.source = new.source
    THEN a
    ELSE IF IsNull(new.source) /\ Truthy(new.prepareError)
    THEN [a EXCEPT !.hlsError = Some(MsgPrepareFailed), !.isLoading = FALSE]
    ELSE a

\* effect [source?.kind, source?.path, isPreparing, retryToken, source]:
\* its cleanup (hls.destroy()), then attaching the prepared source to <video>
attachSource(old, new, a) ==
    IF old.mounted /\ old.source = new.source /\ old.isPreparing = new.isPreparing
       /\ old.retryToken = new.retryToken
    THEN a
    ELSE
    LET b == IF a.hlsAttached
             THEN [a EXCEPT !.hlsAttached = FALSE, !.media = EmptyMedia]
             ELSE a
    IN IF new.isPreparing \/ IsNull(new.source) THEN b
       ELSE IF Val(new.source).kind = "file"
       THEN [b EXCEPT !.hlsError = Null, !.media = LoadMedia(new.source)]
       ELSE IF platform = "hlsjs"
       THEN [b EXCEPT !.hlsError = Null, !.media = LoadMedia(new.source),
                      !.hlsAttached = TRUE]
       ELSE IF platform = "native"
       THEN [b EXCEPT !.hlsError = Null, !.media = LoadMedia(new.source)]
       ELSE [b EXCEPT !.hlsError = Some(MsgHlsUnsupported), !.media = EmptyMedia]

\* effect [source?.path, source?.kind, isPreparing]: video.load() for a file source
reloadFile(old, new, a) ==
    IF old.mounted /\ old.source = new.source /\ old.isPreparing = new.isPreparing
    THEN a
    ELSE IF ~new.isPreparing /\ NotNull(new.source) /\ Val(new.source).kind = "file"
    THEN [a EXCEPT !.media = LoadMedia(a.media.src)]
    ELSE a

\* one commit: the effects whose dependencies differ between the previous render
\* (old) and this one (new), run in declaration order
Effects(c, old, new) ==
    LET a1 == usePreviewSourceEffect(c, old, new, new)
        a2 == resetOnFilePath(c, old, new, a1)
        a3 == clearErrorsOnSource(old, new, a2)
        a4 == showPrepareError(old, new, a3)
        a5 == attachSource(old, new, a4)
        a6 == reloadFile(old, new, a5)
    IN a6

\* re-render until no effect changes the state any more
RECURSIVE Settle(_, _, _)
Settle(c, old, new) ==
    LET n == Effects(c, old, new)
    IN IF n = new THEN new ELSE Settle(c, new, n)

\* unmount: effect cleanups run, the component state is dropped
Unmount(s) == [InitComp EXCEPT !.inflight = CancelAll(s.inflight)]

\* a component that is mounted commits the state `new` its handler produced
Commit(c, s, new) == Settle(c, s, new)

\* what a re-render of App means for child c: mount, unmount or a new filePath
SyncComp(c, s, nowMounted, path) ==
    LET b == [s EXCEPT !.issued = <<>>]
    IN IF ~nowMounted THEN (IF s.mounted THEN Unmount(s) ELSE b)
       ELSE IF ~s.mounted
       THEN Settle(c, b, [b EXCEPT !.mounted = TRUE, !.filePath = path])
       ELSE Settle(c, b, [b EXCEPT !.filePath = path])

(* ---------- handlers of VideoPlayer / TimeRangeEditor ---------- *)
\* they map the component state s of the current render to the state they set

\* VideoPlayer: totalDuration ?? duration, TimeRangeEditor: duration; App passes
\* videoInfo.duration to both
timelineDuration == IF NotNull(videoInfo) THEN Val(videoInfo).duration ELSE 0

clampTime(time) ==
    IF timelineDuration > 0
    THEN Min(Max(time, 0), timelineDuration)
    ELSE Max(time, 0)

computeWindowStart(time) ==
    LET padding == Min(HLS_WINDOW_PADDING, HLS_WINDOW_SECONDS \div 2)
        maxStart == IF timelineDuration > 0
                    THEN Max(0, timelineDuration - HLS_WINDOW_SECONDS)
                    ELSE Max(0, time - padding)
        rawStart == Min(Max(time - padding, 0), maxStart)
    IN (rawStart \div HLS_SEGMENT_SECONDS) * HLS_SEGMENT_SECONDS

\* the conversion without the start offset of the playlist's first fragment
RelativeTime_NoOffset(c, s, target) == Max(0, target - s.windowStart)

\* the media time that shows absolute time `target` of an hls window
\* (VideoPlayer has no start offset: its hlsStartOffset stays 0)
RelativeTime(c, s, target) ==
    IF c = "player" THEN target - s.windowStart
    ELSE Max(0, target - s.windowStart + s.hlsStartOffset)

applyPendingSeek(c, s) ==
    IF IsNull(s.pendingSeek) THEN s
    ELSE LET target == clampTime(Val(s.pendingSeek))
             relative == IF NotNull(s.source) /\ Val(s.source).kind = "hls"
                         THEN (IF c = "player" THEN Max(0, target - s.windowStart)
                               ELSE Max(0, target - s.windowStart + s.hlsStartOffset))
                         ELSE target
         IN [s EXCEPT !.media.time = relative, !.currentTime = target,
                      !.pendingSeek = Null]

\* seekToAbsolute: TRUE when the seek is deferred to a newly prepared window
seekDeferred(s, time) ==
    LET target == clampTime(time)
    IN \/ IsNull(s.source)
       \/ /\ Val(s.source).kind # "file"
          /\ ~(target >= s.windowStart /\ target <= s.windowStart + HLS_WINDOW_SECONDS)

\* seekToAbsolute: the state it sets
seekToAbsolute(c, s, time) ==
    LET target == clampTime(time)
    IN IF seekDeferred(s, time)
       THEN [s EXCEPT !.windowStart = computeWindowStart(target),
                      !.pendingSeek = Some(target),
                      !.currentTime = target,
                      !.isLoading = TRUE]
       ELSE IF Val(s.source).kind = "file"
       THEN [s EXCEPT !.media.time = target, !.currentTime = target]
       ELSE [s EXCEPT !.media.time = RelativeTime(c, s, target),
                      !.currentTime = target]

\* videoRef.current.play(): the play event (setIsPlaying(true)) follows at once;
\* without playable media the promise rejects
PlayMedia(s, reportError) ==
    IF s.media.phase \in {"empty", "error"}
    THEN (IF reportError THEN [s EXCEPT !.error = Some(MsgPlayFailed)] ELSE s)
    ELSE [s EXCEPT !.media.paused = FALSE, !.isPlaying = TRUE]

\* videoRef.current.pause() with its pause event (setIsPlaying(false))
PauseMedia(s) == [s EXCEPT !.media.paused = TRUE, !.isPlaying = FALSE]

togglePlay(c, s) ==
    IF s.isPlaying THEN PauseMedia(s)
    ELSE IF NotNull(s.queuedSeek) /\ seekDeferred(s, Val(s.queuedSeek))
    THEN [seekToAbsolute(c, [s EXCEPT !.queuedSeek = Null], Val(s.queuedSeek))
            EXCEPT !.autoPlayAfterSeek = TRUE]
    ELSE LET t == IF NotNull(s.queuedSeek)
                  THEN seekToAbsolute(c, [s EXCEPT !.queuedSeek = Null], Val(s.queuedSeek))
                  ELSE s
         IN IF s.isPreparing THEN [t EXCEPT !.autoPlayAfterSeek = TRUE]
            ELSE PlayMedia(t, TRUE)

handleLoadStart(s) == [s EXCEPT !.isLoading = TRUE, !.error = Null]

\* handleLoadedMetadata and handleCanPlay set the same state
handleLoadedMetadata(c, s) ==
    LET a == applyPendingSeek(c, [s EXCEPT !.isLoading = FALSE, !.error = Null])
    IN IF s.autoPlayAfterSeek
       THEN PlayMedia([a EXCEPT !.autoPlayAfterSeek = FALSE], FALSE)
       ELSE a

handleCanPlay(c, s) ==
    LET a == applyPendingSeek(c, [s EXCEPT !.isLoading = FALSE])
    IN IF s.autoPlayAfterSeek
       THEN PlayMedia([a EXCEPT !.autoPlayAfterSeek = FALSE], FALSE)
       ELSE a

handleError(s) == [s EXCEPT !.error = Some(MsgMediaError), !.isLoading = FALSE]

handleWaiting(s) == [s EXCEPT !.isLoading = TRUE]

handlePlaying(s) == [s EXCEPT !.isLoading = FALSE, !.isPlaying = TRUE]

handleSeek(c, s, time) ==
    LET a == [s EXCEPT !.currentTime = time, !.queuedSeek = Some(time)]
    IN IF IsNull(s.source) THEN a
       ELSE IF Val(s.source).kind = "file" THEN [a EXCEPT !.media.time = time]
       ELSE IF time >= s.windowStart /\ time <= s.windowStart + HLS_WINDOW_SECONDS
       THEN [a EXCEPT !.media.time = RelativeTime(c, s, time)]
       ELSE a

handleScrubStart(s) ==
    IF ~s.media.paused
    THEN [s EXCEPT !.isScrubbing = TRUE, !.media.paused = TRUE, !.isPlaying = FALSE]
    ELSE [s EXCEPT !.isScrubbing = TRUE]

handleScrubEnd(s) == [s EXCEPT !.isScrubbing = FALSE]

\* handleTimeUpdate of VideoPlayer: absoluteTime = baseOffset + time
\* handleTimeUpdate of TimeRangeEditor: Math.max(0, baseOffset + time - hlsStartOffset)
AbsoluteTime(c, s) ==
    LET baseOffset == IF NotNull(s.source) /\ Val(s.source).kind = "hls"
                      THEN s.windowStart ELSE 0
    IN IF c = "player" THEN baseOffset + s.media.time
       ELSE Max(0, baseOffset + s.media.time - s.hlsStartOffset)

\* TimeRangeEditor.handleTimeUpdate: is the active range found and at its end?
ActiveRangeEnded(s, ranges, absoluteTime) ==
    /\ NotNull(s.activeRangeId)
    /\ \E i \in 1..Len(ranges) :
          /\ ranges[i].id = Val(s.activeRangeId)
          /\ \A j \in 1..(i - 1) : ranges[j].id # Val(s.activeRangeId)
          /\ absoluteTime >= ranges[i].endTime

\* a handleTimeUpdate that only reports the time
TimeUpdated_NeverStops(c, s, ranges, absoluteTime) ==
    [s EXCEPT !.currentTime = absoluteTime]

\* handleTimeUpdate with the absolute time it computed
TimeUpdated(c, s, ranges, absoluteTime) ==
    IF c = "editor" /\ ActiveRangeEnded(s, ranges, absoluteTime)
    THEN [s EXCEPT !.currentTime = absoluteTime, !.media.paused = TRUE,
                   !.isPlaying = FALSE, !.activeRangeId = Null]
    ELSE [s EXCEPT !.currentTime = absoluteTime]

\* VideoPlayer.handleTimeUpdate / TimeRangeEditor.handleTimeUpdate
handleTimeUpdate(c, s, ranges) ==
    IF s.isScrubbing THEN s ELSE TimeUpdated(c, s, ranges, AbsoluteTime(c, s))

\* <video onEnded>: setIsPlaying(false), in the editor also setActiveRangeId(null)
handleEnded(c, s) ==
    IF c = "player" THEN [s EXCEPT !.media.paused = TRUE, !.isPlaying = FALSE]
    ELSE [s EXCEPT !.media.paused = TRUE, !.isPlaying = FALSE, !.activeRangeId = Null]

\* videoRef.current.load(): restarts loading of whatever the element holds
ReloadMedia(m) == IF IsNull(m.src) THEN EmptyMedia ELSE LoadMedia(m.src)

handleRetry(s) ==
    [s EXCEPT !.error = Null, !.hlsError = Null, !.isLoading = TRUE,
              !.retryToken = @ + 1, !.media = ReloadMedia(@)]

\* VideoPlayer: the slider, the play button and the volume are
\* disabled={isLoading || isPreparing || !!error || !!hlsError};
\* TimeRangeEditor: isUiDisabled = disabled || isPreparing || !!hlsError
ControlsDisabled(c, s) ==
    IF c = "player"
    THEN s.isLoading \/ s.isPreparing \/ Truthy(s.error) \/ Truthy(s.hlsError)
    ELSE isProcessing \/ s.isPreparing \/ Truthy(s.hlsError)

\* the error overlay with the retry button: {(error || hlsError) && ...}
RetryShown(s) == Truthy(s.error) \/ Truthy(s.hlsError)

(* ---------- App renders the preview components ---------- *)

\* App.tsx: is component c rendered?
Mounted(c) ==
    IF c = "player"
    THEN NotNull(selectedFile) /\ NotNull(videoInfo) /\ showPreview
    ELSE NotNull(videoInfo) /\ splitMode = "ranges" /\ NotNull(selectedFile)

\* the filePath prop App passes to both components
FilePathProp == IF NotNull(selectedFile) THEN Val(selectedFile) ELSE <<>>

\* the steps a user takes
UserOps ==
    {"openFileDialog", "selectFile", "cancelFileDialog", "dropFile", "setSplitMode",
     "chooseOutputDir", "clickSplit", "togglePreview", "closePreview", "togglePlay",
     "slider", "retry", "setStart", "setEnd", "cancelPending", "editRange",
     "deleteRange", "previewRange", "openBatch", "closeBatch", "batchText",
     "clearBatch", "batchOption", "applyBatch", "durationInput", "presetClick",
     "setUnit"}

\* the kind of request whose failure the step (op, arg) delivers
FailureKind(op, arg) ==
    IF op = "splitReject" \/ (op = "splitResolve" /\ ~arg.success) THEN {"split"}
    ELSE IF op = "metaReject" THEN {"metadata"}
    ELSE IF op = "prepareReject" /\ ~arg.cancelled THEN {"prepare"}
    ELSE {}

\* the kinds of request that failed since the user last did something
FailedSince(op, arg) ==
    IF op \in UserOps THEN {} ELSE last.failed \cup FailureKind(op, arg)

\* a step of App: it re-renders, which mounts, unmounts or re-props its children
AppRender(op, arg) ==
    /\ last' = [op |-> op, arg |-> arg, c |-> "app", seek |-> Null,
                failed |-> FailedSince(op, arg)]
    /\ pv' = [c \in Comps |-> SyncComp(c, pv[c], Mounted(c)', FilePathProp')]
    /\ UNCHANGED <<platform, nextRangeId>>

\* a step of App that is not the delivery of a split-progress event
AppStep(op, arg) == AppRender(op, arg) /\ UNCHANGED <<progressEvents, durationUnit>>

(* ---------- App ---------- *)

\* canSplit without the `!isProcessing` conjunct
canSplit_IgnoresProcessing ==
    /\ NotNull(selectedFile)
    /\ outputDir # <<>>
    /\ NotNull(videoInfo)
    /\ ~isLoading
    /\ IF splitMode = "interval" THEN segmentDuration > 0 ELSE Len(timeRanges) > 0

\* App.tsx: canSplit, the split button is disabled={!canSplit}
canSplit ==
    /\ NotNull(selectedFile)
    /\ outputDir # <<>>
    /\ NotNull(videoInfo)
    /\ ~isProcessing
    /\ ~isLoading
    /\ IF splitMode = "interval" THEN segmentDuration > 0 ELSE Len(timeRanges) > 0

\* App.tsx effect: default output directory = directory of the input file
DefaultOutputDir(sel, dir) ==
    IF NotNull(sel) /\ dir = <<>>
    THEN substring0(Val(sel), lastIndexOf(Val(sel), "/"))
    ELSE dir

\* useVideoSplit.loadVideoInfo up to the await: the state it sets
loadVideoInfo(path) ==
    /\ isLoading' = TRUE
    /\ error' = Null
    /\ result' = Null
    /\ progress' = Null
    /\ metaReqs' = Append(metaReqs, path)

\* App.handleFileSelect(path)
handleFileSelect(path) ==
    /\ selectedFile' = Some(path)
    /\ showPreview' = FALSE
    /\ timeRanges' = <<>>
    /\ loadVideoInfo(path)
    /\ outputDir' = DefaultOutputDir(Some(path), outputDir)
    /\ UNCHANGED <<segmentDuration, splitMode, videoInfo, isProcessing, splitReqs>>

\* FileDropZone.handleClick up to `await open(...)`
OpenFileDialog ==
    /\ ~isProcessing
    /\ ~dialogOpen
    /\ dialogOpen' = TRUE
    /\ UNCHANGED <<selectedFile, segmentDuration, outputDir, showPreview, splitMode,
                   timeRanges, videoInfo, isLoading, isProcessing, progress, result,
                   error, metaReqs, splitReqs>>
    /\ AppStep("openFileDialog", Null)

\* FileDropZone.handleClick after the await: a file was chosen
DialogSelect(path) ==
    /\ dialogOpen
    /\ Len(metaReqs) < MaxMetaReqs
    /\ dialogOpen' = FALSE
    /\ handleFileSelect(path)
    /\ AppStep("selectFile", path)

\* FileDropZone.handleClick after the await: the dialog was dismissed
DialogCancel ==
    /\ dialogOpen
    /\ dialogOpen' = FALSE
    /\ UNCHANGED <<selectedFile, segmentDuration, outputDir, showPreview, splitMode,
                   timeRanges, videoInfo, isLoading, isProcessing, progress, result,
                   error, metaReqs, splitReqs>>
    /\ AppStep("cancelFileDialog", Null)

\* useVideoSplit.loadVideoInfo after the await resolved (try + finally)
MetaResolve(i) ==
    /\ i \in 1..Len(metaReqs)
    /\ videoInfo' = Some([path |-> metaReqs[i], duration |-> DurationOf(metaReqs[i])])
    /\ isLoading' = FALSE
    /\ metaReqs' = RemoveAt(metaReqs, i)
    /\ UNCHANGED <<selectedFile, segmentDuration, outputDir, showPreview, splitMode,
                   timeRanges, isProcessing, progress, result, error, dialogOpen,
                   splitReqs>>
    /\ AppStep("metaResolve", metaReqs[i])

\* loadVideoInfo's catch without setVideoInfo(null)
MetaReject_KeepsVideoInfo(i, msg) ==
    /\ i \in 1..Len(metaReqs)
    /\ error' = Some(msg)
    /\ isLoading' = FALSE
    /\ metaReqs' = RemoveAt(metaReqs, i)
    /\ UNCHANGED <<selectedFile, segmentDuration, outputDir, showPreview, splitMode,
                   timeRanges, videoInfo, isProcessing, progress, result, dialogOpen,
                   splitReqs>>
    /\ AppStep("metaReject", msg)

\* useVideoSplit.loadVideoInfo after the await rejected (catch + finally)
MetaReject(i, msg) ==
    /\ i \in 1..Len(metaReqs)
    /\ error' = Some(msg)
    /\ videoInfo' = Null
    /\ isLoading' = FALSE
    /\ metaReqs' = RemoveAt(metaReqs, i)
    /\ UNCHANGED <<selectedFile, segmentDuration, outputDir, showPreview, splitMode,
                   timeRanges, isProcessing, progress, result, dialogOpen, splitReqs>>
    /\ AppStep("metaReject", msg)

\* SplitModeSelector buttons: onChange = setSplitMode, disabled while processing;
\* the settings panel is rendered only when videoInfo is set
SetSplitMode(m) ==
    /\ NotNull(videoInfo)
    /\ ~isProcessing
    /\ splitMode' = m
    /\ UNCHANGED <<selectedFile, segmentDuration, outputDir, showPreview, timeRanges,
                   videoInfo, isLoading, isProcessing, progress, result, error,
                   dialogOpen, metaReqs, splitReqs>>
    /\ AppStep("setSplitMode", m)

\* OutputSelector.handleClick: onChange = setOutputDir with the chosen directory
ChooseOutputDir(d) ==
    /\ NotNull(videoInfo)
    /\ ~isProcessing
    /\ outputDir' = DefaultOutputDir(selectedFile, d)
    /\ UNCHANGED <<selectedFile, segmentDuration, showPreview, splitMode, timeRanges,
                   videoInfo, isLoading, isProcessing, progress, result, error,
                   dialogOpen, metaReqs, splitReqs>>
    /\ AppStep("chooseOutputDir", d)

\* Math.ceil(a / b) on non-negative integers
CeilDiv(a, b) == (a + b - 1) \div b

\* useVideoSplit.splitVideo: Math.ceil(videoInfo?.duration || 0 / segmentDuration)
\* (`/` binds tighter than `||`)
InitialTotalSegments(info, seg) ==
    LET d == IF NotNull(info) THEN Val(info).duration ELSE 0
    IN IF d # 0 THEN d ELSE CeilDiv(0, seg)

\* useVideoSplit.splitVideo up to the await
splitVideo(inputPath, dir, seg) ==
    /\ isProcessing' = TRUE
    /\ error' = Null
    /\ result' = Null
    /\ progress' = Some([current_segment |-> 0,
                         total_segments |-> InitialTotalSegments(videoInfo, seg),
                         percentage |-> 0])
    /\ splitReqs' = Append(splitReqs, [cmd |-> "split_video_command",
                                       inputPath |-> inputPath,
                                       outputDir |-> dir,
                                       segmentDuration |-> seg])

\* a payload that lists the ranges last to first
RangesPayload_Reversed(ranges) ==
    [i \in 1..Len(ranges) |->
        [start_seconds |-> ranges[Len(ranges) + 1 - i].startTime,
         end_seconds |-> ranges[Len(ranges) + 1 - i].endTime]]

\* the ranges payload of split_video_by_ranges_command
RangesPayload(ranges) ==
    [i \in 1..Len(ranges) |->
        [start_seconds |-> ranges[i].startTime, end_seconds |-> ranges[i].endTime]]

\* useVideoSplit.splitVideoByRanges up to the await
splitVideoByRanges(inputPath, dir, ranges) ==
    /\ isProcessing' = TRUE
    /\ error' = Null
    /\ result' = Null
    /\ progress' = Some([current_segment |-> 0,
                         total_segments |-> Len(ranges),
                         percentage |-> 0])
    /\ splitReqs' = Append(splitReqs, [cmd |-> "split_video_by_ranges_command",
                                       inputPath |-> inputPath,
                                       outputDir |-> dir,
                                       ranges |-> RangesPayload(ranges)])

\* the split button is enabled exactly when canSplit
SplitButtonEnabled == canSplit

\* App.handleSplit, run by a click on the (enabled) split button
handleSplit ==
    /\ SplitButtonEnabled
    /\ NotNull(selectedFile) /\ outputDir # <<>>
    /\ IF splitMode = "interval"
       THEN splitVideo(Val(selectedFile), outputDir, segmentDuration)
       ELSE splitVideoByRanges(Val(selectedFile), outputDir, timeRanges)
    /\ UNCHANGED <<selectedFile, segmentDuration, outputDir, showPreview, splitMode,
                   timeRanges, videoInfo, isLoading, dialogOpen, metaReqs>>
    /\ AppStep("clickSplit", splitMode)

\* splitVideo / splitVideoByRanges after the await resolved (try + finally)
SplitResolve(i, res) ==
    /\ i \in 1..Len(splitReqs)
    /\ result' = Some(res)
    /\ isProcessing' = FALSE
    /\ splitReqs' = RemoveAt(splitReqs, i)
    /\ UNCHANGED <<selectedFile, segmentDuration, outputDir, showPreview, splitMode,
                   timeRanges, videoInfo, isLoading, progress, error, dialogOpen,
                   metaReqs>>
    /\ AppStep("splitResolve", res)

\* the rejected split without the `finally` that clears isProcessing
SplitReject_NoFinally(i, msg) ==
    /\ i \in 1..Len(splitReqs)
    /\ error' = Some(msg)
    /\ splitReqs' = RemoveAt(splitReqs, i)
    /\ UNCHANGED <<selectedFile, segmentDuration, outputDir, showPreview, splitMode,
                   timeRanges, videoInfo, isLoading, isProcessing, progress, result,
                   dialogOpen, metaReqs>>
    /\ AppStep("splitReject", msg)

\* splitVideo / splitVideoByRanges after the await rejected (catch + finally)
SplitReject(i, msg) ==
    /\ i \in 1..Len(splitReqs)
    /\ error' = Some(msg)
    /\ isProcessing' = FALSE
    /\ splitReqs' = RemoveAt(splitReqs, i)
    /\ UNCHANGED <<selectedFile, segmentDuration, outputDir, showPreview, splitMode,
                   timeRanges, videoInfo, isLoading, progress, result, dialogOpen,
                   metaReqs>>
    /\ AppStep("splitReject", msg)

\* the SplitProgress payloads the external tool reports
ProgressPayloads ==
    { [current_segment |-> 1, total_segments |-> 2, percentage |-> 50] }

\* the external tool emits a 'split-progress' event while it works on a split
EmitProgress(payload) ==
    /\ Len(splitReqs) > 0
    /\ Len(progressEvents) < MaxProgressEvents
    /\ progressEvents' = Append(progressEvents, payload)
    /\ pv' = [c \in Comps |-> [pv[c] EXCEPT !.issued = <<>>]]
    /\ last' = [op |-> "emitProgress", arg |-> payload, c |-> "backend",
                seek |-> Null, failed |-> FailedSince("emitProgress", payload)]
    /\ UNCHANGED <<appVars, platform, nextRangeId, durationUnit>>

\* useVideoSplit: listen('split-progress', (event) => setProgress(event.payload))
ProgressListener ==
    /\ progressEvents # <<>>
    /\ progress' = Some(Head(progressEvents))
    /\ progressEvents' = Tail(progressEvents)
    /\ UNCHANGED <<selectedFile, segmentDuration, outputDir, showPreview, splitMode,
                   timeRanges, videoInfo, isLoading, isProcessing, result, error,
                   dialogOpen, metaReqs, splitReqs>>
    /\ AppRender("progress", Head(progressEvents))
    /\ UNCHANGED durationUnit

\* App.tsx: the progress panel is rendered when
\* (isProcessing || (progress && progress.percentage > 0))
ProgressPanelShown ==
    isProcessing \/ (NotNull(progress) /\ Val(progress).percentage > 0)

\* ProgressBar props: progress?.percentage || 0, progress?.current_segment || 0,
\* progress?.total_segments || 0
DisplayedProgress ==
    IF ~ProgressPanelShown THEN Null
    ELSE IF IsNull(progress)
    THEN Some([current_segment |-> 0, total_segments |-> 0, percentage |-> 0])
    ELSE progress

\* the SplitResult values the external tool answers with
SplitResults ==
    { [success |-> TRUE, output_files |-> OutFiles, error |-> Null],
      [success |-> FALSE, output_files |-> <<>>, error |-> Some(ErrSplit)] }

\* App.tsx: the error panel is rendered when `error` is truthy
ErrorPanelShown == NotNull(error) /\ Val(error) # ""

\* App.tsx: the result list is rendered when result?.success
ResultListShown == NotNull(result) /\ Val(result).success


(* ---------- actions of the preview components ---------- *)

\* the state of component c as the handlers of this step see it
Cur(c) == [pv[c] EXCEPT !.issued = <<>>]

\* component c commits the state `new` set by a handler; App is not re-rendered
\* `seek` records the seekToAbsolute call the handler made, if any
CompStepS(c, new, op, arg, seek) ==
    /\ pv' = [d \in Comps |-> IF d = c THEN Commit(c, Cur(c), new) ELSE Cur(d)]
    /\ last' = [op |-> op, arg |-> arg, c |-> c, seek |-> seek,
                failed |-> FailedSince(op, arg)]
    /\ UNCHANGED <<platform, progressEvents, durationUnit>>

CompStep(c, new, op, arg) == CompStepS(c, new, op, arg, Null)

\* a call seekToAbsolute(time) made from the render state s
SeekCall(s, time) ==
    Some([target |-> clampTime(time), windowStart |-> s.windowStart,
          source |-> s.source])

\* the play button
TogglePlay(c) ==
    /\ pv[c].mounted
    /\ ~ControlsDisabled(c, pv[c])
    /\ CompStepS(c, togglePlay(c, Cur(c)), "togglePlay", Null,
                 IF ~pv[c].isPlaying /\ NotNull(pv[c].queuedSeek)
                 THEN SeekCall(pv[c], Val(pv[c].queuedSeek)) ELSE Null)
    /\ UNCHANGED <<appVars, nextRangeId>>

\* the timeline slider: onChange = handleSeek
Seek(c, time) ==
    /\ pv[c].mounted
    /\ ~ControlsDisabled(c, pv[c])
    /\ time >= 0 /\ time <= timelineDuration
    /\ CompStep(c, handleSeek(c, Cur(c), time), "slider", time)
    /\ UNCHANGED <<appVars, nextRangeId>>

\* the retry button of the error overlay
Retry(c) ==
    /\ pv[c].mounted
    /\ RetryShown(pv[c])
    /\ pv[c].retryToken < MaxRetries
    /\ CompStep(c, handleRetry(Cur(c)), "retry", Null)
    /\ UNCHANGED <<appVars, nextRangeId>>

\* <video> fires loadstart
MediaLoadStart(c) ==
    /\ pv[c].mounted
    /\ pv[c].media.phase = "assigned"
    /\ CompStep(c, handleLoadStart([Cur(c) EXCEPT !.media.phase = "loading"]),
                "loadstart", Null)
    /\ UNCHANGED <<appVars, nextRangeId>>

\* <video> fires loadedmetadata
MediaLoadedMetadata(c) ==
    /\ pv[c].mounted
    /\ pv[c].media.phase = "loading"
    /\ CompStep(c, handleLoadedMetadata(c, [Cur(c) EXCEPT !.media.phase = "meta"]),
                "loadedmetadata", Null)
    /\ UNCHANGED <<appVars, nextRangeId>>

\* <video> fires canplay
MediaCanPlay(c) ==
    /\ pv[c].mounted
    /\ pv[c].media.phase = "meta"
    /\ CompStep(c, handleCanPlay(c, [Cur(c) EXCEPT !.media.phase = "ready"]),
                "canplay", Null)
    /\ UNCHANGED <<appVars, nextRangeId>>

\* the timeline slider is pressed: onPointerDown = handleScrubStart
ScrubStart(c) ==
    /\ pv[c].mounted
    /\ ~ControlsDisabled(c, pv[c])
    /\ ~pv[c].isScrubbing
    /\ CompStep(c, handleScrubStart(Cur(c)), "scrubStart", Null)
    /\ UNCHANGED <<appVars, nextRangeId>>

\* the timeline slider is released: onPointerUp = handleScrubEnd
ScrubEnd(c) ==
    /\ pv[c].mounted
    /\ pv[c].isScrubbing
    /\ CompStep(c, handleScrubEnd(Cur(c)), "scrubEnd", Null)
    /\ UNCHANGED <<appVars, nextRangeId>>

\* the absolute time at which the media the element holds ends
MediaEnd(s) ==
    IF NotNull(s.media.src) /\ Val(s.media.src).kind = "hls"
    THEN Min(timelineDuration, s.windowStart + HLS_WINDOW_SECONDS)
    ELSE timelineDuration

\* <video> fires timeupdate: after a seek (advance = 0) or while playing
MediaTimeUpdate(c, advance) ==
    /\ pv[c].mounted
    /\ pv[c].media.phase \in {"meta", "ready"}
    /\ advance > 0 => ~pv[c].media.paused
    /\ AbsoluteTime(c, pv[c]) + advance <= MediaEnd(pv[c])
    /\ CompStep(c, handleTimeUpdate(c, [Cur(c) EXCEPT !.media.time = @ + advance],
                                    timeRanges),
                "timeupdate", advance)
    /\ UNCHANGED <<appVars, nextRangeId>>

\* <video> fires ended: playback reached the end of the media
MediaEnded(c) ==
    /\ pv[c].mounted
    /\ pv[c].media.phase = "ready"
    /\ ~pv[c].media.paused
    /\ AbsoluteTime(c, pv[c]) >= MediaEnd(pv[c])
    /\ CompStep(c, handleEnded(c, Cur(c)), "ended", Null)
    /\ UNCHANGED <<appVars, nextRangeId>>

\* hls.js of the editor reports LEVEL_LOADED / LEVEL_UPDATED: handleStartOffset
HlsLevelLoaded(start) ==
    /\ pv["editor"].mounted
    /\ pv["editor"].hlsAttached
    /\ start >= 0
    /\ CompStep("editor", [Cur("editor") EXCEPT !.hlsStartOffset = start],
                "levelLoaded", start)
    /\ UNCHANGED <<appVars, nextRangeId>>

\* <video> fires error while loading or decoding
MediaError(c) ==
    /\ pv[c].mounted
    /\ pv[c].media.phase \in {"loading", "meta", "ready"}
    /\ CompStep(c, handleError([Cur(c) EXCEPT !.media.phase = "error",
                                              !.media.paused = TRUE]),
                "mediaerror", Null)
    /\ UNCHANGED <<appVars, nextRangeId>>

\* hls.js reports a fatal error: setHlsError(...); hls.destroy()
HlsFatalError(c) ==
    /\ pv[c].mounted
    /\ pv[c].hlsAttached
    /\ CompStep(c, [Cur(c) EXCEPT !.hlsError = Some(MsgHlsFatal),
                                  !.hlsAttached = FALSE, !.media = EmptyMedia],
                "hlsfatal", Null)
    /\ UNCHANGED <<appVars, nextRangeId>>

\* what prepare_hls_source_command answers: a playlist for the requested window
\* when the file is at least minSizeBytes big, else the file itself
PreparedSource(args) ==
    IF FileSize(args.inputPath) >= args.minSizeBytes
    THEN [kind |-> "hls", path |-> args.inputPath]
    ELSE [kind |-> "file", path |-> args.inputPath]

\* a .then handler without the test of the cancelled flag
PrepareResolve_IgnoresCancelled(c, r) ==
    /\ r \in pv[c].inflight
    /\ LET s == [Cur(c) EXCEPT !.inflight = @ \ {r}]
           new == [s EXCEPT !.source = Some(PreparedSource(r.req)),
                            !.isPreparing = FALSE]
       IN IF pv[c].mounted
          THEN CompStep(c, new, "prepareResolve", r)
          ELSE /\ pv' = [d \in Comps |-> IF d = c THEN new ELSE Cur(d)]
               /\ last' = [op |-> "prepareResolve", arg |-> r, c |-> c, seek |-> Null,
                          failed |-> FailedSince("prepareResolve", r)]
               /\ UNCHANGED <<platform, progressEvents, durationUnit>>
    /\ UNCHANGED <<appVars, nextRangeId>>

\* usePreviewSource: .then + .finally of the invoke
PrepareResolve(c, r) ==
    /\ r \in pv[c].inflight
    /\ LET s == [Cur(c) EXCEPT !.inflight = @ \ {r}]
           new == IF r.cancelled THEN s
                  ELSE IF PreparedSource(r.req).path = <<>>
                  THEN [s EXCEPT !.isPreparing = FALSE]
                  ELSE [s EXCEPT !.source = Some(PreparedSource(r.req)),
                                 !.isPreparing = FALSE]
       IN IF pv[c].mounted
          THEN CompStep(c, new, "prepareResolve", r)
          ELSE /\ pv' = [d \in Comps |-> IF d = c THEN s ELSE Cur(d)]
               /\ last' = [op |-> "prepareResolve", arg |-> r, c |-> c, seek |-> Null,
                          failed |-> FailedSince("prepareResolve", r)]
               /\ UNCHANGED <<platform, progressEvents, durationUnit>>
    /\ UNCHANGED <<appVars, nextRangeId>>

\* a catch handler that asks again by itself (bumps the request key)
PrepareReject_AutoRetry(c, r, msg) ==
    /\ r \in pv[c].inflight
    /\ LET s == [Cur(c) EXCEPT !.inflight = @ \ {r}]
           new == IF r.cancelled \/ s.retryToken >= MaxRetries THEN s
                  ELSE [s EXCEPT !.prepareError = Some(msg), !.isPreparing = FALSE,
                                 !.retryToken = @ + 1]
       IN IF pv[c].mounted
          THEN CompStep(c, new, "prepareReject", r)
          ELSE /\ pv' = [d \in Comps |-> IF d = c THEN s ELSE Cur(d)]
               /\ last' = [op |-> "prepareReject", arg |-> r, c |-> c, seek |-> Null,
                          failed |-> FailedSince("prepareReject", r)]
               /\ UNCHANGED <<platform, progressEvents, durationUnit>>
    /\ UNCHANGED <<appVars, nextRangeId>>

\* a .catch handler that swallows the error: only .finally acts
PrepareReject_DropsError(c, r, msg) ==
    /\ r \in pv[c].inflight
    /\ LET s == [Cur(c) EXCEPT !.inflight = @ \ {r}]
           new == IF r.cancelled THEN s ELSE [s EXCEPT !.isPreparing = FALSE]
       IN IF pv[c].mounted
          THEN CompStep(c, new, "prepareReject", r)
          ELSE /\ pv' = [d \in Comps |-> IF d = c THEN s ELSE Cur(d)]
               /\ last' = [op |-> "prepareReject", arg |-> r, c |-> c, seek |-> Null,
                          failed |-> FailedSince("prepareReject", r)]
               /\ UNCHANGED <<platform, progressEvents, durationUnit>>
    /\ UNCHANGED <<appVars, nextRangeId>>

\* usePreviewSource: .catch + .finally of the invoke
PrepareReject(c, r, msg) ==
    /\ r \in pv[c].inflight
    /\ LET s == [Cur(c) EXCEPT !.inflight = @ \ {r}]
           new == IF r.cancelled THEN s
                  ELSE [s EXCEPT !.prepareError = Some(msg), !.isPreparing = FALSE]
       IN IF pv[c].mounted
          THEN CompStep(c, new, "prepareReject", r)
          ELSE /\ pv' = [d \in Comps |-> IF d = c THEN s ELSE Cur(d)]
               /\ last' = [op |-> "prepareReject", arg |-> r, c |-> c, seek |-> Null,
                          failed |-> FailedSince("prepareReject", r)]
               /\ UNCHANGED <<platform, progressEvents, durationUnit>>
    /\ UNCHANGED <<appVars, nextRangeId>>

(* ---------- range operations of TimeRangeEditor / App ---------- *)

\* App.handleAddRange
handleAddRange(range) == Append(timeRanges, range)

\* App.handleUpdateRange with { startTime }
handleUpdateStart(id, t) ==
    [i \in 1..Len(timeRanges) |->
        IF timeRanges[i].id = id THEN [timeRanges[i] EXCEPT !.startTime = t]
        ELSE timeRanges[i]]

\* App.handleUpdateRange with { endTime }
handleUpdateEnd(id, t) ==
    [i \in 1..Len(timeRanges) |->
        IF timeRanges[i].id = id THEN [timeRanges[i] EXCEPT !.endTime = t]
        ELSE timeRanges[i]]

\* App.handleDeleteRange
handleDeleteRange(id) == SelectSeq(timeRanges, LAMBDA r : r.id # id)

\* an editor step that also sets App's timeRanges
RangeStep(new, ranges, op, arg) ==
    /\ timeRanges' = ranges
    /\ CompStep("editor", new, op, arg)
    /\ UNCHANGED <<selectedFile, segmentDuration, outputDir, showPreview, splitMode,
                   videoInfo, isLoading, isProcessing, progress, result, error,
                   dialogOpen, metaReqs, splitReqs>>

\* TimeRangeEditor.handleSetStart ("set start" button)
handleSetStart ==
    LET s == Cur("editor")
    IN /\ s.mounted
       /\ ~ControlsDisabled("editor", s)
       /\ IF NotNull(s.editingRangeId)
          THEN RangeStep(s, handleUpdateStart(Val(s.editingRangeId), s.currentTime),
                         "setStart", s.currentTime)
          ELSE RangeStep([s EXCEPT !.pendingStart = Some(s.currentTime)], timeRanges,
                         "setStart", s.currentTime)
       /\ UNCHANGED nextRangeId

\* TimeRangeEditor.handleSetEnd ("set end" button)
handleSetEnd ==
    LET s == Cur("editor")
    IN /\ s.mounted
       /\ ~ControlsDisabled("editor", s)
       /\ NotNull(s.pendingStart) \/ NotNull(s.editingRangeId)
       /\ IF NotNull(s.editingRangeId)
          THEN /\ RangeStep([s EXCEPT !.editingRangeId = Null],
                            handleUpdateEnd(Val(s.editingRangeId), s.currentTime),
                            "setEnd", s.currentTime)
               /\ UNCHANGED nextRangeId
          ELSE LET start == Min(Val(s.pendingStart), s.currentTime)
                   end == Max(Val(s.pendingStart), s.currentTime)
               IN IF end > start
                  THEN /\ nextRangeId <= MaxRangeIds
                       /\ RangeStep([s EXCEPT !.pendingStart = Null],
                                    handleAddRange([id |-> nextRangeId,
                                                    startTime |-> start,
                                                    endTime |-> end]),
                                    "setEnd", s.currentTime)
                       /\ nextRangeId' = nextRangeId + 1
                  ELSE /\ RangeStep([s EXCEPT !.pendingStart = Null], timeRanges,
                                    "setEnd", s.currentTime)
                       /\ UNCHANGED nextRangeId

\* TimeRangeEditor.handleCancelPending (the button is rendered while a start is
\* pending or a range is edited)
handleCancelPending ==
    LET s == Cur("editor")
    IN /\ s.mounted
       /\ ~ControlsDisabled("editor", s)
       /\ NotNull(s.pendingStart) \/ NotNull(s.editingRangeId)
       /\ RangeStep([s EXCEPT !.pendingStart = Null, !.editingRangeId = Null],
                    timeRanges, "cancelPending", Null)
       /\ UNCHANGED nextRangeId

\* TimeRangeEditor.handleEditRange(range) for the i-th listed range
handleEditRange(i) ==
    LET s == Cur("editor")
    IN /\ s.mounted
       /\ ~ControlsDisabled("editor", s)
       /\ i \in 1..Len(timeRanges)
       /\ RangeStep([s EXCEPT !.editingRangeId = Some(timeRanges[i].id),
                              !.pendingStart = Null,
                              !.media.time = timeRanges[i].startTime,
                              !.currentTime = timeRanges[i].startTime],
                    timeRanges, "editRange", timeRanges[i].id)
       /\ UNCHANGED nextRangeId

\* the delete button of the i-th listed range: onDeleteRange(range.id)
DeleteRange(i) ==
    LET s == Cur("editor")
    IN /\ s.mounted
       /\ ~ControlsDisabled("editor", s)
       /\ i \in 1..Len(timeRanges)
       /\ RangeStep(s, handleDeleteRange(timeRanges[i].id), "deleteRange",
                    timeRanges[i].id)
       /\ UNCHANGED nextRangeId

\* TimeRangeEditor.handlePreviewRange(range): does it call seekToAbsolute?
previewSeeks(s, range) ==
    LET isSameRange == s.activeRangeId = Some(range.id)
    IN /\ ~(isSameRange /\ s.isPlaying)
       /\ \/ ~isSameRange
          \/ s.currentTime < range.startTime
          \/ s.currentTime > range.endTime

\* TimeRangeEditor.handlePreviewRange(range): the state it sets
previewRange(s, range) ==
    LET isSameRange == s.activeRangeId = Some(range.id)
    IN IF isSameRange /\ s.isPlaying THEN PauseMedia(s)
       ELSE LET p == IF ~isSameRange /\ s.isPlaying THEN PauseMedia(s) ELSE s
                shouldSeek == previewSeeks(s, range)
                deferred == shouldSeek /\ seekDeferred(s, range.startTime)
                q == IF shouldSeek THEN seekToAbsolute("editor", p, range.startTime)
                     ELSE p
                r == [q EXCEPT !.activeRangeId = Some(range.id)]
            IN IF deferred THEN [r EXCEPT !.autoPlayAfterSeek = TRUE]
               ELSE PlayMedia(r, FALSE)

\* the preview button of the i-th listed range
handlePreviewRange(i) ==
    LET s == Cur("editor")
    IN /\ s.mounted
       /\ ~ControlsDisabled("editor", s)
       /\ i \in 1..Len(timeRanges)
       /\ CompStepS("editor", previewRange(s, timeRanges[i]), "previewRange",
                    timeRanges[i].id,
                    IF previewSeeks(s, timeRanges[i])
                    THEN SeekCall(s, timeRanges[i].startTime) ELSE Null)
       /\ UNCHANGED <<appVars, nextRangeId>>

(* ---------- batch entry of ranges in TimeRangeEditor ---------- *)

\* the characters batch lines are typed with
DigitChars == <<"0", "1", "2", "3", "4", "5", "6", "7", "8", "9">>
IsDigit(ch) == \E i \in 1..10 : DigitChars[i] = ch
DigitVal(ch) == (CHOOSE i \in 1..10 : DigitChars[i] = ch) - 1

\* String.prototype.trim
RECURSIVE trim(_)
trim(str) ==
    IF str = <<>> THEN <<>>
    ELSE IF Head(str) = " " THEN trim(Tail(str))
    ELSE IF str[Len(str)] = " " THEN trim(SubSeq(str, 1, Len(str) - 1))
    ELSE str

\* String.prototype.split on any one character of seps
RECURSIVE split(_, _)
split(str, seps) ==
    IF \E i \in 1..Len(str) : str[i] \in seps
    THEN LET i == CHOOSE k \in 1..Len(str) :
                      str[k] \in seps /\ \A j \in 1..(k - 1) : str[j] \notin seps
         IN <<SubSeq(str, 1, i - 1)>> \o split(SubSeq(str, i + 1, Len(str)), seps)
    ELSE <<str>>

\* the value of a string of decimal digits
RECURSIVE DecimalOf(_)
DecimalOf(str) ==
    IF str = <<>> THEN 0
    ELSE DecimalOf(SubSeq(str, 1, Len(str) - 1)) * 10 + DigitVal(str[Len(str)])

\* Number(part): Null stands for NaN, '' is 0
Number(part) ==
    IF \A i \in 1..Len(part) : IsDigit(part[i]) THEN Some(DecimalOf(part)) ELSE Null

\* parseTimeToSeconds: parts.map(trim) and nums = parts.map(Number)
NumbersOf(raw) == [k \in 1..Len(raw) |-> Number(trim(raw[k]))]

\* parseTimeToSeconds: from the length test on, Null or Some(seconds)
SecondsOf(nums) ==
    IF Len(nums) > 3 THEN Null
    ELSE IF \E k \in 1..Len(nums) : IsNull(nums[k]) \/ Val(nums[k]) < 0 THEN Null
    ELSE IF Len(nums) = 3
    THEN Some(Val(nums[1]) * 3600 + Val(nums[2]) * 60 + Val(nums[3]))
    ELSE IF Len(nums) = 2 THEN Some(Val(nums[1]) * 60 + Val(nums[2]))
    ELSE Some(Val(nums[1]))

\* TimeRangeEditor.parseTimeToSeconds: Null, or Some(seconds)
parseTimeToSeconds(input) ==
    IF trim(input) = <<>> THEN Null
    ELSE SecondsOf(NumbersOf(split(trim(input), {":"})))

\* the separators of /[-~,]/ that the lines are typed with
BatchSeparators == {"-", "~", ","}

\* pieces.map(trim)
TrimEach(pieces) == [k \in 1..Len(pieces) |-> trim(pieces[k])]

\* line.split(...) of parseBatchText before .filter(Boolean)
BatchPieces(line) ==
    IF \E i \in 1..Len(line) : line[i] \in BatchSeparators
    THEN TrimEach(split(line, BatchSeparators))
    ELSE split(line, {" "})

\* parseBatchText: the tokens of a trimmed line
BatchTokens(line) == SelectSeq(BatchPieces(line), LAMBDA t : t # <<>>)

ErrMissing == "missing start or end"
ErrFormat == "bad time format"
ErrOrder == "end must be after start"
ErrBeyond == "beyond the duration"

\* a BatchParseLine
BatchRow(line, s, e, err, c) ==
    [raw |-> line, startSeconds |-> s, endSeconds |-> e, error |-> err, clamped |-> c]

\* parseBatchText without the clamping of its clamp option
ClampTime_Never(v, clamp, duration) == v

\* parseBatchText: Math.min(Math.max(v, 0), duration) under batchOptions.clamp
ClampTime(v, clamp, duration) ==
    IF clamp /\ duration > 0 THEN Min(Max(v, 0), duration) ELSE v

\* parseBatchText: the tests on the clamped times finalStart, finalEnd
BatchRowFinal(line, duration, start, end, finalStart, finalEnd) ==
    IF duration > 0 /\ (finalStart >= duration \/ finalEnd > duration)
    THEN BatchRow(line, Some(finalStart), Some(finalEnd), Some(ErrBeyond), FALSE)
    ELSE IF finalEnd <= finalStart
    THEN BatchRow(line, Some(finalStart), Some(finalEnd), Some(ErrOrder), FALSE)
    ELSE BatchRow(line, Some(finalStart), Some(finalEnd), Null,
                  finalStart # start \/ finalEnd # end)

\* parseBatchText: the tests on the parsed times start, end (Null or Some)
BatchRowTimes(line, clamp, duration, start, end) ==
    IF IsNull(start) \/ IsNull(end) THEN BatchRow(line, start, end, Some(ErrFormat), FALSE)
    ELSE IF Val(end) <= Val(start) THEN BatchRow(line, start, end, Some(ErrOrder), FALSE)
    ELSE BatchRowFinal(line, duration, Val(start), Val(end),
                       ClampTime(Val(start), clamp, duration),
                       ClampTime(Val(end), clamp, duration))

\* parseBatchText: the tests on the tokens of a line
BatchRowTokens(line, clamp, duration, tokens) ==
    IF Len(tokens) < 2 THEN BatchRow(line, Null, Null, Some(ErrMissing), FALSE)
    ELSE BatchRowTimes(line, clamp, duration, parseTimeToSeconds(tokens[1]),
                       parseTimeToSeconds(tokens[2]))

\* parseBatchText: the BatchParseLine of one non-empty trimmed line
BatchParseLine(line, clamp, duration) ==
    BatchRowTokens(line, clamp, duration, BatchTokens(line))

\* parseBatchText: text.split(/\r?\n/), each line trimmed, empty lines skipped
BatchLinesOf(text) == SelectSeq(TrimEach(split(text, {"\n"})), LAMBDA l : l # <<>>)

\* parseBatchText over its lines
BatchRows(lines, clamp, duration) ==
    [k \in 1..Len(lines) |-> BatchParseLine(lines[k], clamp, duration)]

\* TimeRangeEditor.parseBatchText
parseBatchText(text, clamp, duration) == BatchRows(BatchLinesOf(text), clamp, duration)

\* batchPreview of the editor state s
batchPreview(s) == parseBatchText(s.batchText, s.batchOptions.clamp, timelineDuration)

invalidCount(preview) == Len(SelectSeq(preview, LAMBDA item : NotNull(item.error)))

\* .map(item => ({ startSeconds, endSeconds })) of applyBatchRanges
StartEndOf(rows) ==
    [k \in 1..Len(rows) |-> [startSeconds |-> Val(rows[k].startSeconds),
                             endSeconds |-> Val(rows[k].endSeconds)]]

\* the valid rows of the preview as { startSeconds, endSeconds }
validRanges(preview) ==
    StartEndOf(SelectSeq(preview, LAMBDA item : IsNull(item.error)
                            /\ NotNull(item.startSeconds) /\ NotNull(item.endSeconds)))

validCount(preview) == Len(validRanges(preview))

\* [...items].sort((a, b) => a.startSeconds - b.startSeconds): insert x into the
\* sorted `rest`, after the items that do not start later (the sort is stable)
InsertByStart(rest, x) ==
    SelectSeq(rest, LAMBDA r : r.startSeconds <= x.startSeconds) \o <<x>>
        \o SelectSeq(rest, LAMBDA r : r.startSeconds > x.startSeconds)

RECURSIVE sortByStart(_)
sortByStart(items) ==
    IF items = <<>> THEN <<>>
    ELSE InsertByStart(sortByStart(SubSeq(items, 1, Len(items) - 1)), items[Len(items)])

\* mergeRanges: one round of the forEach, `merged` so far and the next range
MergeOne(merged, range) ==
    IF Len(merged) > 0 /\ range.startSeconds <= merged[Len(merged)].endSeconds
    THEN [merged EXCEPT ![Len(merged)].endSeconds = Max(@, range.endSeconds)]
    ELSE Append(merged, range)

\* mergeRanges: the forEach over the sorted items
RECURSIVE mergeInto(_, _)
mergeInto(merged, sorted) ==
    IF sorted = <<>> THEN merged
    ELSE mergeInto(MergeOne(merged, Head(sorted)), Tail(sorted))

\* TimeRangeEditor.mergeRanges
mergeRanges(items) == mergeInto(<<>>, sortByStart(items))

ErrInvalidLines == "invalid lines, fix them before importing"
ErrNothingValid == "no valid range to import"

\* applyBatchRanges: normalized.map(...) gives every range a fresh id
WithFreshIds(normalized) ==
    [k \in 1..Len(normalized) |->
        [id |-> nextRangeId + k - 1,
         startTime |-> normalized[k].startSeconds,
         endTime |-> normalized[k].endSeconds]]

\* applyBatchRanges: nextRanges, the valid lines as fresh TimeRanges
BatchNewRanges(options, preview) ==
    WithFreshIds(IF options.merge THEN mergeRanges(validRanges(preview))
                 ELSE validRanges(preview))

\* applyBatchRanges: the list it hands to onSetRanges
BatchNextRanges(mode, nextRanges) ==
    IF mode = "replace" THEN nextRanges ELSE timeRanges \o nextRanges

\* the early returns if invalid lines were ignored whatever the option says
BatchRejected_IgnoresAlways(options, preview) ==
    IF validCount(preview) = 0 THEN Some(ErrNothingValid) ELSE Null

\* applyBatchRanges: the message it returns early with, if it does
BatchRejected(options, preview) ==
    IF ~options.ignoreInvalid /\ invalidCount(preview) > 0 THEN Some(ErrInvalidLines)
    ELSE IF validCount(preview) = 0 THEN Some(ErrNothingValid)
    ELSE Null

\* the "batch entry" button of the editor
OpenBatchInput ==
    /\ pv["editor"].mounted
    /\ ~ControlsDisabled("editor", pv["editor"])
    /\ ~pv["editor"].showBatchInput
    /\ RangeStep([Cur("editor") EXCEPT !.batchError = Null, !.showBatchInput = TRUE],
                 timeRanges, "openBatch", Null)
    /\ UNCHANGED nextRangeId

\* the close button of the dialog
CloseBatchInput ==
    /\ pv["editor"].mounted /\ pv["editor"].showBatchInput
    /\ RangeStep([Cur("editor") EXCEPT !.showBatchInput = FALSE], timeRanges,
                 "closeBatch", Null)
    /\ UNCHANGED nextRangeId

\* the textarea: setBatchText(e.target.value)
SetBatchText(text) ==
    /\ pv["editor"].mounted /\ pv["editor"].showBatchInput
    /\ RangeStep([Cur("editor") EXCEPT !.batchText = text], timeRanges,
                 "batchText", text)
    /\ UNCHANGED nextRangeId

\* the "clear" button: setBatchText(''); setBatchError(null)
ClearBatchText ==
    /\ pv["editor"].mounted /\ pv["editor"].showBatchInput
    /\ RangeStep([Cur("editor") EXCEPT !.batchText = <<>>, !.batchError = Null],
                 timeRanges, "clearBatch", Null)
    /\ UNCHANGED nextRangeId

\* one of the three option checkboxes
ToggleBatchOption(opt) ==
    /\ pv["editor"].mounted /\ pv["editor"].showBatchInput
    /\ RangeStep([Cur("editor") EXCEPT !.batchOptions[opt] = ~@], timeRanges,
                 "batchOption", opt)
    /\ UNCHANGED nextRangeId

\* applyBatchRanges with its early-return message and its nextRanges at hand
ApplyBatch(s, mode, rejected, nextRanges) ==
    IF NotNull(rejected)
    THEN /\ RangeStep([s EXCEPT !.batchError = rejected], timeRanges,
                      "applyBatch", mode)
         /\ UNCHANGED nextRangeId
    ELSE /\ nextRangeId + Len(nextRanges) - 1 <= MaxRangeIds
         /\ RangeStep([s EXCEPT !.showBatchInput = FALSE, !.batchText = <<>>,
                                !.batchError = Null],
                      BatchNextRanges(mode, nextRanges), "applyBatch", mode)
         /\ nextRangeId' = nextRangeId + Len(nextRanges)

\* TimeRangeEditor.applyBatchRanges(mode), the two import buttons
applyBatchRanges(mode) ==
    /\ pv["editor"].mounted /\ pv["editor"].showBatchInput
    /\ ApplyBatch(Cur("editor"), mode,
                  BatchRejected(pv["editor"].batchOptions, batchPreview(pv["editor"])),
                  BatchNewRanges(pv["editor"].batchOptions, batchPreview(pv["editor"])))

\* the preview toggle button: setShowPreview(!showPreview)
TogglePreview ==
    /\ NotNull(selectedFile) /\ NotNull(videoInfo)
    /\ showPreview' = ~showPreview
    /\ UNCHANGED <<selectedFile, segmentDuration, outputDir, splitMode, timeRanges,
                   videoInfo, isLoading, isProcessing, progress, result, error,
                   dialogOpen, metaReqs, splitReqs>>
    /\ AppStep("togglePreview", Null)

\* VideoPlayer's close button: onClose = () => setShowPreview(false)
ClosePreview ==
    /\ pv["player"].mounted
    /\ showPreview' = FALSE
    /\ UNCHANGED <<selectedFile, segmentDuration, outputDir, splitMode, timeRanges,
                   videoInfo, isLoading, isProcessing, progress, result, error,
                   dialogOpen, metaReqs, splitReqs>>
    /\ AppStep("closePreview", Null)

\* the set of extensions FileDropZone accepts in a dropped path
videoExts ==
    {<<"m", "p", "4">>, <<"m", "k", "v">>, <<"a", "v", "i">>, <<"m", "o", "v">>,
     <<"w", "e", "b", "m">>, <<"f", "l", "v">>, <<"w", "m", "v">>, <<"m", "4", "v">>}

\* FileDropZone: the tauri://drag-drop listener with a dropped file
DropFile(path) ==
    /\ ~isProcessing
    /\ extOf(path) \in videoExts
    /\ Len(metaReqs) < MaxMetaReqs
    /\ handleFileSelect(path)
    /\ UNCHANGED dialogOpen
    /\ AppStep("dropFile", path)

(* ---------- specifications ---------- *)

Platforms == {"hlsjs", "native", "none"}

Init ==
    /\ selectedFile = Null
    /\ segmentDuration = 300
    /\ outputDir = <<>>
    /\ showPreview = FALSE
    /\ splitMode = "ranges"
    /\ timeRanges = <<>>
    /\ videoInfo = Null
    /\ isLoading = FALSE
    /\ isProcessing = FALSE
    /\ progress = Null
    /\ result = Null
    /\ error = Null
    /\ dialogOpen = FALSE
    /\ metaReqs = <<>>
    /\ splitReqs = <<>>
    /\ pv = [c \in Comps |-> InitComp]
    /\ platform \in Platforms
    /\ nextRangeId = 1
    /\ progressEvents = <<>>
    /\ durationUnit = "seconds"
    /\ last = [op |-> "init", arg |-> Null, c |-> "app", seek |-> Null, failed |-> {}]

\* the file selection and split workflow of App / useVideoSplit
Next ==
    \/ OpenFileDialog
    \/ \E p \in Paths : DialogSelect(p)
    \/ DialogCancel
    \/ \E i \in 1..MaxMetaReqs : MetaResolve(i)
    \/ \E i \in 1..MaxMetaReqs : MetaReject(i, ErrMeta)
    \/ \E m \in {"interval", "ranges"} : SetSplitMode(m)
    \/ \E d \in Dirs : ChooseOutputDir(d)
    \/ handleSplit
    \/ \E i \in DOMAIN splitReqs, res \in SplitResults : SplitResolve(i, res)
    \/ \E i \in DOMAIN splitReqs : SplitReject(i, ErrSplit)

Spec == Init /\ [][Next]_vars

\* the times the timeline slider is dragged to
SeekTargets == {601, 1203}

\* a preview component's source gets prepared and its media loads
CompLoad(c) ==
    \/ \E r \in pv[c].inflight : PrepareResolve(c, r)
    \/ MediaLoadStart(c)
    \/ MediaLoadedMetadata(c)
    \/ MediaCanPlay(c)

\* preparation or playback fails; the user retries
CompFail(c) ==
    \/ \E r \in pv[c].inflight : PrepareReject(c, r, ErrPrepare)
    \/ MediaError(c)
    \/ HlsFatalError(c)
    \/ Retry(c)

\* the user plays, pauses and drags the slider to one of the times T
CompUse(c, T) ==
    \/ TogglePlay(c)
    \/ \E t \in T : Seek(c, t)

CompNext(c, T) == CompLoad(c) \/ CompFail(c) \/ CompUse(c, T)

\* previewing the selected file in VideoPlayer
NextPlayer ==
    \/ \E p \in Paths : metaReqs = <<>> /\ DropFile(p)
    \/ \E i \in 1..MaxMetaReqs : MetaResolve(i)
    \/ TogglePreview
    \/ ClosePreview
    \/ CompNext("player", {601})

SpecPlayer == Init /\ [][NextPlayer]_vars

\* seeking in a long file that is previewed window by window
NextSeek ==
    \/ metaReqs = <<>> /\ DropFile(PathA)
    \/ \E i \in 1..MaxMetaReqs : MetaResolve(i)
    \/ TogglePreview
    \/ CompNext("player", SeekTargets)

SpecSeek == Init /\ [][NextSeek]_vars

\* the times the slider is dragged to while ranges are marked
MarkTargets == {1}

\* marking, editing and previewing ranges in TimeRangeEditor
NextRanges ==
    \/ metaReqs = <<>> /\ DropFile(PathB)
    \/ \E i \in 1..MaxMetaReqs : MetaResolve(i)
    \/ CompLoad("editor")
    \/ CompUse("editor", MarkTargets)
    \/ handleSetStart
    \/ handleSetEnd
    \/ handleCancelPending
    \/ \E i \in 1..MaxRangeIds : handleEditRange(i)
    \/ \E i \in 1..MaxRangeIds : DeleteRange(i)
    \/ \E i \in 1..MaxRangeIds : handlePreviewRange(i)

SpecRanges == Init /\ [][NextRanges]_vars

\* requests and their failures: splitting, reading metadata and preparing the
\* preview of a long file, with the user steps that send requests
NextRetry ==
    \/ DropFile(PathA)
    \/ \E i \in 1..MaxMetaReqs : MetaResolve(i)
    \/ \E i \in 1..MaxMetaReqs : MetaReject(i, ErrMeta)
    \/ \E m \in {"interval", "ranges"} : SetSplitMode(m)
    \/ handleSplit
    \/ \E i \in DOMAIN splitReqs, res \in SplitResults : SplitResolve(i, res)
    \/ \E i \in DOMAIN splitReqs : SplitReject(i, ErrSplit)
    \/ TogglePreview
    \/ \E c \in Comps : \E r \in pv[c].inflight : PrepareResolve(c, r)
    \/ \E c \in Comps : \E r \in pv[c].inflight : PrepareReject(c, r, ErrPrepare)
    \/ \E c \in Comps : Retry(c)
    \/ CompUse("editor", {1203})

SpecRetry == Init /\ [][NextRetry]_vars

\* a split with its progress events; the file comes from either directory
NextProgress ==
    \/ \E p \in Paths : metaReqs = <<>> /\ DropFile(p)
    \/ \E i \in 1..MaxMetaReqs : MetaResolve(i)
    \/ \E m \in {"interval", "ranges"} : SetSplitMode(m)
    \/ handleSplit
    \/ \E i \in DOMAIN splitReqs, res \in SplitResults : SplitResolve(i, res)
    \/ \E i \in DOMAIN splitReqs : SplitReject(i, ErrSplit)
    \/ \E payload \in ProgressPayloads : EmitProgress(payload)
    \/ ProgressListener

SpecProgress == Init /\ [][NextProgress]_vars

\* the lines typed into the batch dialog; file B lasts 3 seconds
LineA == <<"0", " ", "2">>
LineB == <<"1", "-", "3">>
LineC == <<"0", ":", "2", ",", " ", "9">>
LineD == <<"4", " ", "~", " ", "9">>
LineE == <<"2", " ", "1">>
LineF == <<"x", " ", "1">>
BatchLines == {LineA, LineB, LineC, LineD, LineE, LineF}
BatchTexts ==
    BatchLines \cup {LineB \o <<"\n">> \o l2 : l2 \in BatchLines}

\* batch entry of ranges for file B, then a split by ranges
NextBatch ==
    \/ metaReqs = <<>> /\ selectedFile = Null /\ DropFile(PathB)
    \/ \E i \in 1..MaxMetaReqs : MetaResolve(i)
    \/ \E r \in pv["editor"].inflight : PrepareResolve("editor", r)
    \/ OpenBatchInput
    \/ CloseBatchInput
    \/ \E text \in BatchTexts : pv["editor"].batchText = <<>> /\ SetBatchText(text)
    \/ ClearBatchText
    \/ \E opt \in {"merge", "clamp", "ignoreInvalid"} : ToggleBatchOption(opt)
    \/ \E mode \in {"replace", "append"} : applyBatchRanges(mode)
    \/ \E i \in 1..MaxRangeIds : DeleteRange(i)

SpecBatch == Init /\ [][NextBatch]_vars

\* a split by ranges of a list that batch entry filled
NextRangeSplit ==
    \/ metaReqs = <<>> /\ selectedFile = Null /\ DropFile(PathB)
    \/ \E i \in 1..MaxMetaReqs : MetaResolve(i)
    \/ \E r \in pv["editor"].inflight : PrepareResolve("editor", r)
    \/ OpenBatchInput
    \/ \E text \in {LineA, LineB \o <<"\n">> \o LineA} :
           pv["editor"].batchText = <<>> /\ SetBatchText(text)
    \/ ToggleBatchOption("merge")
    \/ \E mode \in {"replace", "append"} : applyBatchRanges(mode)
    \/ handleSplit
    \/ \E i \in DOMAIN splitReqs, res \in SplitResults : SplitResolve(i, res)
    \/ \E i \in DOMAIN splitReqs : SplitReject(i, ErrSplit)

SpecRangeSplit == Init /\ [][NextRangeSplit]_vars

\* seeking in the preview player when every preparation succeeds and loaded
\* media fires its events: responses and media events are not withheld forever
NextSeekLoads ==
    \/ metaReqs = <<>> /\ DropFile(PathA)
    \/ \E i \in 1..MaxMetaReqs : MetaResolve(i)
    \/ TogglePreview
    \/ CompLoad("player")
    \/ CompUse("player", SeekTargets)

SpecSeekLive ==
    Init /\ [][NextSeekLoads]_vars /\ WF_vars(CompLoad("player"))

(* ====================== claims ====================== *)

\* C1: at most one split request (split_video_command or
\* split_video_by_ranges_command) is in flight in every reachable state.
C1_OneSplitAtATime == Len(splitReqs) <= 1

\* C1 witness: a split is in flight while the metadata of a newly selected file
\* arrives (everything but isProcessing would enable the button).
C1_Witness ==
    /\ Len(splitReqs) = 1
    /\ last.op = "metaResolve"
    /\ NotNull(selectedFile) /\ ~isLoading

\* C2: isProcessing is true exactly while a split request is in flight, so it
\* is false again after the request resolved or rejected.
C2_ProcessingIffOutstanding == isProcessing <=> (Len(splitReqs) > 0)

\* C2 witness: a split request has just been rejected and nothing is in flight.
C2_Witness == last.op = "splitReject" /\ splitReqs = <<>> /\ ~isProcessing

\* C3 (as claimed): whenever a get_video_info request is in flight, isLoading
\* is true.
C3_LoadingWhileMetaOutstanding == (Len(metaReqs) > 0) => isLoading

\* C4 (as claimed): every range of the range list has endTime > startTime.
C4_RangesHaveEndAfterStart ==
    \A i \in DOMAIN timeRanges : timeRanges[i].endTime > timeRanges[i].startTime

\* C5 (as claimed): with an hls source loaded for [windowStart, windowStart + 600],
\* a seekToAbsolute call to a target outside the window changes windowStart and
\* issues a new preparation request; a call to a target inside issues no request
\* and sets the media element's time at once.
C5_SeekOutsideRequests ==
    (NotNull(last.seek) /\ NotNull(Val(last.seek).source)
        /\ Val(Val(last.seek).source).kind = "hls") =>
    LET k == Val(last.seek)
        s == pv[last.c]
        outside == \/ k.target < k.windowStart
                   \/ k.target > k.windowStart + HLS_WINDOW_SECONDS
    IN IF outside
       THEN s.windowStart # k.windowStart /\ s.issued # <<>>
       ELSE /\ s.issued = <<>>
            /\ s.media.time = k.target - k.windowStart
            /\ s.currentTime = k.target

\* C6 (as claimed): every preview preparation request carries the 200 MiB
\* threshold, whatever the file and whichever component issued it.
C6_SameThresholdEverywhere ==
    \A c \in Comps : \A i \in DOMAIN pv[c].issued :
        pv[c].issued[i].minSizeBytes = 200 * 1024 * 1024

\* C6 (amended): the player's requests always carry 200 MiB; the editor's carry
\* 200 MiB for mp4 / m4v / mov files (or no extension) and 0 for any other
\* container, which forces the chunked playlist whatever the size.
C6_ThresholdByComponentAndContainer ==
    \A c \in Comps : \A r \in pv[c].inflight :
        r.req.minSizeBytes =
            IF c = "editor"
               /\ extOf(r.req.inputPath) \notin
                    {<<>>, <<"m", "p", "4">>, <<"m", "4", "v">>, <<"m", "o", "v">>}
            THEN 0
            ELSE 200 * 1024 * 1024

\* C6 witness: the player has just asked for an mkv file with the 200 MiB
\* threshold while the editor's request for the same file carries 0.
C6_Witness ==
    /\ last.op = "togglePreview"
    /\ Len(pv["player"].issued) = 1
    /\ pv["player"].issued[1].inputPath = PathB
    /\ pv["player"].issued[1].minSizeBytes = HLS_MIN_SIZE
    /\ \E r \in pv["editor"].inflight :
          r.req.inputPath = PathB /\ r.req.minSizeBytes = 0

\* C7 (as claimed): right after a split request ended in failure (rejected, or
\* resolved with success = false) the error panel shows error text.
C7_FailedSplitShowsError ==
    (\/ last.op = "splitReject"
     \/ (last.op = "splitResolve" /\ ~last.arg.success))
    => ErrorPanelShown

\* C8: right after a metadata request failed, error is the external message,
\* videoInfo is null, isLoading is false and the split button is disabled;
\* while videoInfo is null no split is issued, and videoInfo only becomes
\* non-null by a metadata request that succeeds.
C8_MetaFailure ==
    /\ [](last.op = "metaReject" =>
            /\ error = Some(last.arg)
            /\ IsNull(videoInfo)
            /\ ~isLoading
            /\ ~SplitButtonEnabled)
    /\ [][IsNull(videoInfo) =>
            /\ last'.op # "clickSplit"
            /\ (NotNull(videoInfo') => last'.op = "metaResolve")]_vars

\* C8 witness: a metadata request failed while another one was still in flight.
C8_Witness == last.op = "metaReject" /\ Len(metaReqs) > 0 /\ IsNull(videoInfo)

\* C9: right after a preparation request of the player failed without having
\* been superseded, prepareError is set, hlsError is non-null, isPreparing and
\* isLoading are false and the controls are disabled; as long as the player
\* stays mounted this remains so until the retry button is pressed.
C9_PrepareFailure ==
    /\ []((last.op = "prepareReject" /\ last.c = "player" /\ ~last.arg.cancelled) =>
            /\ Truthy(pv["player"].prepareError)
            /\ NotNull(pv["player"].hlsError)
            /\ ~pv["player"].isPreparing
            /\ ~pv["player"].isLoading
            /\ ControlsDisabled("player", pv["player"]))
    /\ [][(/\ pv["player"].mounted
            /\ Truthy(pv["player"].prepareError)
            /\ pv["player"]'.mounted
            /\ ~(last'.op = "retry" /\ last'.c = "player")) =>
            /\ pv["player"]'.prepareError = pv["player"].prepareError
            /\ NotNull(pv["player"]'.hlsError)
            /\ ~pv["player"]'.isPreparing
            /\ ControlsDisabled("player", pv["player"])']_vars

\* C9 witness: the request issued by a retry has failed as well.
C9_Witness ==
    /\ last.op = "prepareReject" /\ last.c = "player" /\ ~last.arg.cancelled
    /\ pv["player"].retryToken > 0
    /\ pv["player"].mounted

C11_ProgressConsumedUntilCompletion ==
    [][last'.op = "progress" =>
         IF Len(splitReqs) > 0
         THEN DisplayedProgress' = Some(last'.arg)
         ELSE DisplayedProgress' = DisplayedProgress]_vars

\* C12: while the user has not chosen an output directory with the selector
\* (SpecProgress has no such step), outputDir is the directory part of the
\* currently selected file's path, also after a second selection.
C12_OutputDirFollowsSelectedFile ==
    NotNull(selectedFile) =>
        outputDir = substring0(Val(selectedFile), lastIndexOf(Val(selectedFile), "/"))

\* App.tsx: the predicted number of segments shown before an interval split,
\* Math.ceil(videoInfo.duration / segmentDuration)
PredictedSegments == CeilDiv(Val(videoInfo).duration, segmentDuration)

\* C13: when an interval split starts, the total segment count of the initial
\* progress state is ceil(duration / segmentDuration), the number the UI showed
\* beforehand as the predicted number of segments.
C13_InitialTotalIsPredictedCount ==
    [][(last'.op = "clickSplit" /\ last'.arg = "interval") =>
          Val(progress').total_segments = PredictedSegments]_vars

\* C14: a split-by-ranges request carries exactly the ranges of the current range
\* list, in list order, each as (start_seconds = startTime, end_seconds =
\* endTime), and the initial progress total is the number of ranges in the list.
C14_RangesRequestMirrorsList ==
    [][(last'.op = "clickSplit" /\ last'.arg = "ranges") =>
          /\ Len(splitReqs') = Len(splitReqs) + 1
          /\ splitReqs'[Len(splitReqs')].cmd = "split_video_by_ranges_command"
          /\ Len(splitReqs'[Len(splitReqs')].ranges) = Len(timeRanges)
          /\ \A i \in 1..Len(timeRanges) :
                splitReqs'[Len(splitReqs')].ranges[i] =
                    [start_seconds |-> timeRanges[i].startTime,
                     end_seconds |-> timeRanges[i].endTime]
          /\ Val(progress').total_segments = Len(timeRanges)]_vars

\* C14 witness: the split button was just clicked in ranges mode with a list of
\* two ranges, the first of which starts after the second.
C14_Witness ==
    /\ last.op = "clickSplit" /\ last.arg = "ranges"
    /\ Len(timeRanges) = 2
    /\ timeRanges[1].startTime > timeRanges[2].startTime
    /\ Len(splitReqs) = 1
    /\ splitReqs[1].ranges = <<[start_seconds |-> 1, end_seconds |-> 3],
                               [start_seconds |-> 0, end_seconds |-> 2]>>
    /\ Val(progress).total_segments = 2

\* C15: with the option 'auto-merge overlapping ranges' enabled, after a batch
\* import in either mode no two ranges of the resulting list overlap.
C15_NoOverlapAfterMergedImport ==
    [][(/\ last'.op = "applyBatch"
        /\ pv["editor"].batchOptions.merge
        /\ ~pv'["editor"].showBatchInput) =>
          \A i, j \in 1..Len(timeRanges') :
              i # j => ~(/\ timeRanges'[i].startTime < timeRanges'[j].endTime
                         /\ timeRanges'[j].startTime < timeRanges'[i].endTime)]_vars

\* the ranges of list `ranges` that the import step just taken created
ImportedRanges(ranges) == SelectSeq(ranges, LAMBDA r : r.id >= nextRangeId)

\* every imported range lies within the video: 0 <= start < end <= duration
ImportedWithinDuration(ranges) ==
    \A k \in 1..Len(ranges) :
        /\ 0 <= ranges[k].startTime
        /\ ranges[k].startTime < ranges[k].endTime
        /\ ranges[k].endTime <= timelineDuration

\* row k of the preview imports its line with the end cut to the duration
CutToDuration(rows, k) ==
    /\ IsNull(rows[k].error)
    /\ rows[k].endSeconds = Some(timelineDuration)
    /\ rows[k].clamped

\* C16 (as claimed): for a duration > 0 every range imported by batch entry
\* satisfies 0 <= start < end <= duration; with 'clamp to duration' enabled a
\* line whose end exceeds the duration is imported with its end cut to the
\* duration, with it disabled such a line is rejected. `plain` holds the times
\* as typed (parsed without a duration), `rows` is the preview that is imported.
C16_ClampKeepsEveryLongLine ==
    [][(last'.op = "applyBatch" /\ timelineDuration > 0) =>
          LET s == pv["editor"]
              rows == batchPreview(s)
              plain == parseBatchText(s.batchText, FALSE, 0)
          IN /\ ~pv'["editor"].showBatchInput =>
                    ImportedWithinDuration(ImportedRanges(timeRanges'))
             /\ \A k \in 1..Len(rows) :
                   (IsNull(plain[k].error)
                        /\ Val(plain[k].endSeconds) > timelineDuration) =>
                      IF s.batchOptions.clamp THEN CutToDuration(rows, k)
                      ELSE NotNull(rows[k].error)]_vars

\* C16 (amended): for a duration > 0 every range imported by batch entry
\* satisfies 0 <= start < end <= duration; a line whose start is at or beyond the
\* duration is rejected whatever the option says; a line that starts before the
\* duration and ends beyond it is imported with its end cut to the duration when
\* 'clamp to duration' is enabled and is rejected when it is disabled.
C16_ClampKeepsLinesStartingInside ==
    [][(last'.op = "applyBatch" /\ timelineDuration > 0) =>
          LET s == pv["editor"]
              rows == batchPreview(s)
              plain == parseBatchText(s.batchText, FALSE, 0)
          IN /\ ~pv'["editor"].showBatchInput =>
                    ImportedWithinDuration(ImportedRanges(timeRanges'))
             /\ \A k \in 1..Len(rows) :
                   (IsNull(plain[k].error)
                        /\ Val(plain[k].endSeconds) > timelineDuration) =>
                      IF Val(plain[k].startSeconds) >= timelineDuration
                      THEN NotNull(rows[k].error)
                      ELSE IF s.batchOptions.clamp THEN CutToDuration(rows, k)
                      ELSE NotNull(rows[k].error)]_vars

\* C16 witness: with clamping enabled the line "0:2, 9" of a 3 second video was
\* just imported as the range [2, 3].
C16_Witness ==
    /\ last.op = "applyBatch"
    /\ pv["editor"].mounted /\ ~pv["editor"].showBatchInput
    /\ pv["editor"].batchOptions.clamp
    /\ timelineDuration = 3
    /\ \E k \in 1..Len(timeRanges) :
          timeRanges[k].startTime = 2 /\ timeRanges[k].endTime = 3

\* C17: a batch import whose text has an invalid line while 'ignore invalid
\* lines' is disabled, or whose text has no valid line in either setting,
\* imports nothing: the range list is unchanged, the dialog stays open with its
\* text and an error message is set.
C17_RejectedImportChangesNothing ==
    [][last'.op = "applyBatch" =>
          LET s == pv["editor"]
              rows == batchPreview(s)
          IN (\/ /\ ~s.batchOptions.ignoreInvalid
                 /\ \E k \in 1..Len(rows) : NotNull(rows[k].error)
              \/ \A k \in 1..Len(rows) : NotNull(rows[k].error)) =>
                /\ timeRanges' = timeRanges
                /\ pv'["editor"].showBatchInput
                /\ pv'["editor"].batchText = s.batchText
                /\ Truthy(pv'["editor"].batchError)]_vars

\* C17 witness: with 'ignore invalid lines' disabled the text "1-3" + "x 1" was
\* just refused, the earlier list is still there and the dialog shows the error.
C17_Witness ==
    /\ last.op = "applyBatch"
    /\ ~pv["editor"].batchOptions.ignoreInvalid
    /\ pv["editor"].batchText = LineB \o <<"\n">> \o LineF
    /\ pv["editor"].showBatchInput
    /\ pv["editor"].batchError = Some(ErrInvalidLines)
    /\ Len(timeRanges) = 1

\* component c shows the media of the source prepared for its current window
ShowsPreparedSource(c) ==
    /\ NotNull(pv[c].source)
    /\ ~pv[c].isPreparing
    /\ pv[c].media.src = pv[c].source

\* C19: a pending seek is cleared by a loadedmetadata or canplay event only when
\* that event comes from the media of the source prepared for the new window.
C19_PendingSeekConsumedByNewMedia ==
    [][\A c \in Comps :
          (/\ last'.c = c
           /\ last'.op \in {"loadedmetadata", "canplay"}
           /\ NotNull(pv[c].pendingSeek)
           /\ IsNull(pv'[c].pendingSeek)) => ShowsPreparedSource(c)]_vars

\* C20: a play request made while a seek is deferred (autoPlayAfterSeek) fires at
\* the load event of the newly prepared source, starts playback and is consumed
\* by that event; a load event without a pending request starts nothing.
C20_AutoplayOnceOnNewSource ==
    [][\A c \in Comps :
          (last'.c = c /\ last'.op \in {"loadedmetadata", "canplay"}) =>
              IF pv[c].autoPlayAfterSeek
              THEN /\ ShowsPreparedSource(c)
                   /\ pv'[c].isPlaying
                   /\ ~pv'[c].autoPlayAfterSeek
              ELSE /\ pv'[c].isPlaying = pv[c].isPlaying
                   /\ ~pv'[c].autoPlayAfterSeek]_vars

\* C18: every deferred seek of the preview player is eventually applied: once
\* pendingSeek is set, then (preparations succeed, loaded media fires its events)
\* pendingSeek becomes null again with isLoading false, unless the player is
\* closed meanwhile.
C18_DeferredSeekEventuallyApplied ==
    (pv["player"].mounted /\ NotNull(pv["player"].pendingSeek))
        ~> (\/ ~pv["player"].mounted
            \/ IsNull(pv["player"].pendingSeek) /\ ~pv["player"].isLoading)

(* ---------- playback time in the preview components ---------- *)

\* the start offsets hls.js reports for the first fragment of a playlist
StartOffsets == {1}

\* seeking a long file in both preview components, with the timeupdate events
\* the seeks fire
NextTime ==
    \/ metaReqs = <<>> /\ DropFile(PathA)
    \/ \E i \in 1..MaxMetaReqs : MetaResolve(i)
    \/ TogglePreview
    \/ \E c \in Comps : CompLoad(c)
    \/ \E c \in Comps : CompUse(c, {601})
    \/ \E c \in Comps : MediaTimeUpdate(c, 0)
    \/ \E o \in StartOffsets : HlsLevelLoaded(o)

SpecTime == Init /\ [][NextTime]_vars

\* the previous step was a seek of component last.c, by the slider or by
\* seekToAbsolute, to a time inside the window of its hls source
LastSeekTarget ==
    IF NotNull(last.seek) THEN Val(last.seek).target ELSE last.arg

LastSeekInWindow ==
    /\ last.c \in Comps
    /\ last.op = "slider" \/ NotNull(last.seek)
    /\ NotNull(pv[last.c].source)
    /\ Val(pv[last.c].source).kind = "hls"
    /\ NotNull(last.seek) =>
          /\ Val(last.seek).source = pv[last.c].source
          /\ Val(last.seek).windowStart = pv[last.c].windowStart
    /\ LastSeekTarget >= pv[last.c].windowStart
    /\ LastSeekTarget <= pv[last.c].windowStart + HLS_WINDOW_SECONDS

\* C21: with an hls source, the timeupdate event that follows a seek to a time T
\* inside the current window reports currentTime = T, in the player and in the
\* editor (whatever start offset the editor has learned)
C21_SeekThenTimeUpdateReportsTarget ==
    [][(/\ LastSeekInWindow
        /\ last'.op = "timeupdate"
        /\ last'.arg = 0
        /\ last'.c = last.c)
       => pv'[last.c].currentTime = LastSeekTarget]_vars

\* a seek inside a window that does not start at 0, with a start offset learned,
\* has been followed by its timeupdate
C21_Witness ==
    /\ last.op = "timeupdate"
    /\ last.arg = 0
    /\ last.c = "editor"
    /\ pv["editor"].windowStart > 0
    /\ pv["editor"].hlsStartOffset > 0
    /\ pv["editor"].media.time = 2
    /\ pv["editor"].currentTime = 601

\* C22: for every seek target t in [0, duration], computeWindowStart(t) is a
\* non-negative multiple of the segment length whose window
\* [start, start + HLS_WINDOW_SECONDS] contains t
C22_WindowCoversEveryTarget ==
    \A t \in 0..timelineDuration :
        LET start == computeWindowStart(t)
        IN /\ start >= 0
           /\ start % HLS_SEGMENT_SECONDS = 0
           /\ start <= t
           /\ t <= start + HLS_WINDOW_SECONDS

\* the step is the arrival of a response to a preparation request that was
\* superseded (its effect was cleaned up: cancelled = true)
SupersededResponse ==
    /\ last'.op \in {"prepareResolve", "prepareReject"}
    /\ last'.arg.cancelled

\* C23: a response to a superseded preparation request changes neither source
\* nor prepareError nor isPreparing, and a source the hook holds is the one
\* prepared for the arguments of the request issued last (those of the current
\* render), with no request still unanswered
C23_SupersededResponseIgnored ==
    [][/\ SupersededResponse =>
            /\ pv'[last'.c].source = pv[last'.c].source
            /\ pv'[last'.c].prepareError = pv[last'.c].prepareError
            /\ pv'[last'.c].isPreparing = pv[last'.c].isPreparing
       /\ \A c \in Comps : NotNull(pv'[c].source) =>
            /\ pv'[c].source = Some(PreparedSource(PrepareArgs(c, pv'[c])))
            /\ \A r \in pv'[c].inflight : r.cancelled]_vars

\* the response to a superseded request arrived while the request that
\* superseded it was still being prepared
C23_Witness ==
    /\ last.op = "prepareResolve"
    /\ last.arg.cancelled
    /\ last.c = "player"
    /\ pv["player"].mounted
    /\ pv["player"].isPreparing
    /\ IsNull(pv["player"].source)
    /\ \E r \in pv["player"].inflight : ~r.cancelled

\* the step is the arrival of a response to a preparation request that was not
\* superseded
CurrentResponse ==
    /\ last'.op \in {"prepareResolve", "prepareReject"}
    /\ ~last'.arg.cancelled

C24_VideoInfoOfSelectedFile ==
    (metaReqs = <<>> /\ NotNull(videoInfo)) =>
        /\ NotNull(selectedFile)
        /\ Val(videoInfo).path = Val(selectedFile)

\* the times the slider is dragged to while ranges of a long file are marked
EditTargets == {601}

\* marking one range of a long file that the editor plays window by window and
\* choosing to edit it, with the timeupdate events the media fires on a seek
NextEdit ==
    \/ metaReqs = <<>> /\ DropFile(PathA)
    \/ \E i \in 1..MaxMetaReqs : MetaResolve(i)
    \/ CompLoad("editor")
    \/ \E t \in EditTargets : Seek("editor", t)
    \/ TogglePlay("editor")
    \/ timeRanges = <<>> /\ handleSetStart
    \/ timeRanges = <<>> /\ handleSetEnd
    \/ handleEditRange(1)
    \/ MediaTimeUpdate("editor", 0)

SpecEdit == Init /\ [][NextEdit]_vars

\* C26: after handleEditRange(range) and the timeupdate event that follows, the
\* absolute current time the editor shows is range.startTime, whatever the
\* source kind and the window start
C26_EditPositionsPlayheadAtStart ==
    [][(/\ last.op = "editRange"
        /\ last'.op = "timeupdate"
        /\ last'.arg = 0)
       => \E i \in 1..Len(timeRanges) :
             /\ timeRanges[i].id = last.arg
             /\ pv'["editor"].currentTime = timeRanges[i].startTime]_vars

\* the media time that passes between two timeupdate events of a playing media
TimeAdvances == {0, 3}

\* marking and previewing ranges of a short file whose media plays: timeupdate
\* events while it plays, ended at its end
NextRangePreview ==
    \/ metaReqs = <<>> /\ DropFile(PathB)
    \/ \E i \in 1..MaxMetaReqs : MetaResolve(i)
    \/ CompLoad("editor")
    \/ CompUse("editor", MarkTargets)
    \/ ScrubStart("editor")
    \/ ScrubEnd("editor")
    \/ handleSetStart
    \/ handleSetEnd
    \/ \E i \in 1..MaxRangeIds : handlePreviewRange(i)
    \/ \E a \in TimeAdvances : MediaTimeUpdate("editor", a)
    \/ MediaEnded("editor")

SpecRangePreview == Init /\ [][NextRangePreview]_vars

\* the end time of the listed range that is marked active, if there is one
ActiveRangeEnd(s) ==
    IF NotNull(s.activeRangeId)
       /\ \E i \in 1..Len(timeRanges) : timeRanges[i].id = Val(s.activeRangeId)
    THEN Some(timeRanges[CHOOSE i \in 1..Len(timeRanges) :
                            timeRanges[i].id = Val(s.activeRangeId)].endTime)
    ELSE Null

\* C27: while a listed range is previewed, a timeupdate event that reports an
\* absolute time at or beyond the range's endTime pauses playback and clears
\* activeRangeId, an earlier one leaves the range active, and the ended event
\* clears activeRangeId too
C27_PreviewStopsAtRangeEnd ==
    [][/\ (/\ last'.op = "timeupdate"
           /\ last'.c = "editor"
           /\ ~pv["editor"].isScrubbing
           /\ NotNull(ActiveRangeEnd(pv["editor"])))
          => IF pv'["editor"].currentTime >= Val(ActiveRangeEnd(pv["editor"]))
             THEN /\ pv'["editor"].media.paused
                  /\ ~pv'["editor"].isPlaying
                  /\ IsNull(pv'["editor"].activeRangeId)
             ELSE pv'["editor"].activeRangeId = pv["editor"].activeRangeId
       /\ (last'.op = "ended" /\ last'.c = "editor")
          => /\ IsNull(pv'["editor"].activeRangeId)
             /\ ~pv'["editor"].isPlaying]_vars

\* a playing preview of a range reached the range's end and was stopped
C27_Witness ==
    /\ last.op = "timeupdate"
    /\ last.arg > 0
    /\ Len(timeRanges) = 1
    /\ pv["editor"].currentTime = timeRanges[1].endTime
    /\ pv["editor"].media.paused
    /\ ~pv["editor"].isPlaying
    /\ IsNull(pv["editor"].activeRangeId)
    /\ pv["editor"].hlsAttached

\* one file after the other is dropped on the window while the first is
\* previewed and a range of it is being marked
NextFiles ==
    \/ \E p \in Paths : metaReqs = <<>> /\ DropFile(p)
    \/ \E i \in 1..MaxMetaReqs : MetaResolve(i)
    \/ TogglePreview
    \/ CompLoad("editor")
    \/ Seek("editor", 1)
    \/ timeRanges = <<>> /\ handleSetStart
    \/ timeRanges = <<>> /\ handleSetEnd
    \/ handleEditRange(1)

SpecFiles == Init /\ [][NextFiles]_vars

\* the per-file state of a preview component has its initial values
PerFileStateReset(s) ==
    /\ s.windowStart = 0
    /\ IsNull(s.pendingSeek)
    /\ IsNull(s.queuedSeek)
    /\ ~s.autoPlayAfterSeek
    /\ ~s.isScrubbing
    /\ s.currentTime = 0
    /\ IsNull(s.pendingStart)
    /\ IsNull(s.editingRangeId)

\* C28: selecting another file empties the range list, hides the preview and
\* returns window start, pending seek, queued seek, autoplay flag, scrubbing
\* flag, current time, pending range start and range being edited of the player
\* and of the range editor to their initial values
C28_NewFileResetsPerFileState ==
    [][(/\ last'.op \in {"selectFile", "dropFile"}
        /\ selectedFile' # selectedFile)
       => /\ timeRanges' = <<>>
          /\ ~showPreview'
          /\ \A c \in Comps : PerFileStateReset(pv'[c])]_vars

(* ---------- DurationInput: the segment length of an interval split ---------- *)

\* the longest run of decimal digits a string starts with
RECURSIVE DigitPrefix(_)
DigitPrefix(str) ==
    IF str # <<>> /\ IsDigit(Head(str)) THEN <<Head(str)>> \o DigitPrefix(Tail(str))
    ELSE <<>>

\* parseInt(str): an optional sign and the digits that follow, Null stands for NaN
parseInt(str) ==
    LET negative == str # <<>> /\ Head(str) = "-"
        signed == str # <<>> /\ Head(str) \in {"-", "+"}
        digits == DigitPrefix(IF signed THEN Tail(str) ELSE str)
    IN IF digits = <<>> THEN Null
       ELSE IF negative THEN Some(0 - DecimalOf(digits))
       ELSE Some(DecimalOf(digits))

\* handleInputChange without the lower bound
InputSeconds_Unclamped(unit, text) ==
    LET inputValue == IF NotNull(parseInt(text)) THEN Val(parseInt(text)) ELSE 0
    IN IF unit = "minutes" THEN inputValue * 60 ELSE inputValue

\* DurationInput.handleInputChange: the value handed to onChange
InputSeconds(unit, text) ==
    LET inputValue == IF NotNull(parseInt(text)) /\ Val(parseInt(text)) # 0
                      THEN Val(parseInt(text)) ELSE 0
        seconds == IF unit = "minutes" THEN inputValue * 60 ELSE inputValue
    IN Max(1, seconds)
\* DurationInput.PRESETS: the values in seconds
PRESETS == {30, 60, 300, 600, 1800}

\* what is typed into the number field: empty, 0, -5, 2 and 1.5
DurationTexts ==
    {<<>>, <<"0">>, <<"-", "5">>, <<"2">>, <<"1", ".", "5">>}

\* App.tsx renders DurationInput under videoInfo && splitMode === 'interval',
\* disabled while processing
DurationInputEnabled ==
    NotNull(videoInfo) /\ splitMode = "interval" /\ ~isProcessing

\* a step of DurationInput: App re-renders with the values set
DurationStep(op, arg) ==
    /\ UNCHANGED <<selectedFile, outputDir, showPreview, splitMode, timeRanges,
                   videoInfo, isLoading, isProcessing, progress, result, error,
                   dialogOpen, metaReqs, splitReqs, progressEvents>>
    /\ AppRender(op, arg)

\* DurationInput.handleInputChange
handleInputChange(text) ==
    /\ DurationInputEnabled
    /\ segmentDuration' = InputSeconds(durationUnit, text)
    /\ UNCHANGED durationUnit
    /\ DurationStep("durationInput", text)

\* DurationInput.handlePresetClick
handlePresetClick(presetValue) ==
    /\ DurationInputEnabled
    /\ segmentDuration' = presetValue
    /\ durationUnit' = "seconds"
    /\ DurationStep("presetClick", presetValue)

\* the unit buttons: onClick = () => onUnitChange(unit)
SetDurationUnit(unit) ==
    /\ DurationInputEnabled
    /\ durationUnit' = unit
    /\ UNCHANGED segmentDuration
    /\ DurationStep("setUnit", unit)

\* choosing the segment length and splitting by interval
NextDuration ==
    \/ metaReqs = <<>> /\ DropFile(PathA)
    \/ \E i \in 1..MaxMetaReqs : MetaResolve(i)
    \/ \E m \in {"interval", "ranges"} : SetSplitMode(m)
    \/ \E text \in DurationTexts : handleInputChange(text)
    \/ \E v \in PRESETS : handlePresetClick(v)
    \/ \E u \in {"seconds", "minutes"} : SetDurationUnit(u)
    \/ handleSplit
    \/ \E i \in DOMAIN splitReqs, res \in SplitResults : SplitResolve(i, res)

SpecDuration == Init /\ [][NextDuration]_vars

\* C29: after any sequence of duration inputs, preset clicks and unit toggles
\* the segment duration is a whole number of seconds >= 1, every interval split
\* is requested with such a length, and a unit toggle leaves the duration in
\* seconds unchanged
C29_SegmentDurationAtLeastOne ==
    [][/\ segmentDuration' \in Nat
       /\ segmentDuration' >= 1
       /\ \A i \in DOMAIN splitReqs' :
             splitReqs'[i].cmd = "split_video_command" =>
                splitReqs'[i].segmentDuration >= 1
       /\ last'.op = "setUnit" => segmentDuration' = segmentDuration]_vars

\* the input was clamped to one second and the unit was toggled afterwards
C29_Witness ==
    /\ last.op = "setUnit"
    /\ last.arg = "seconds"
    /\ segmentDuration = 1
====
